---- MODULE Spec2Model ----
(***************************************************************************)
(* Connection-resilience layer of the Chronos backend                      *)
(*   chronos/backend/app/utils/utils_graph.py   (Neo4j driver, queries)    *)
(*   chronos/backend/app/utils/utils_pubmed.py  (Redis client, cache,       *)
(*                                               PubMed search)            *)
(*   chronos/backend/app/utils/utils_llm.py     (hypothesis generation,    *)
(*                                               text clean-up)            *)
(*                                                                         *)
(* The program is a set of asyncio coroutines.  A coroutine runs           *)
(* atomically from one await to the next; `running` names the coroutine    *)
(* that holds the event loop ("none" when all are suspended).  A label     *)
(* in AwaitLabels is a suspension point (network I/O or sleep); every      *)
(* other label is a piece of straight-line code of the running coroutine.  *)
(*                                                                         *)
(* Durations are in centiseconds (1.0 s = 100).                            *)
(* A handle is an object identity (a positive integer); None is 0.  As in  *)
(* the Python runtime, the identity of an object that was closed and that  *)
(* nothing refers to any more may be given to a later object.              *)
(***************************************************************************)
EXTENDS Integers, Sequences, FiniteSets, TLC

\* ---------------------------------------------------------------- bounds
MaxPrior == 1          \* a call starts while at most MaxPrior handles were built before it
MaxRetriesArg == 4     \* largest max_retries argument passed by a caller
MaxRecords == 2        \* longest record list the graph store returns
MaxItems == 1          \* longest list or tuple handed to the cache
MaxLen == 5            \* longest text handed to clean_hypothesis_text
MaxArticles == 2       \* most PubmedArticle elements in a document

\* ------------------------------------------------------ program constants
max_retries_default == 3      \* max_retries: int = 3
retry_delay == 100            \* retry_delay: float = 1.0
query_delay == 50             \* asyncio.sleep(0.5 * attempt)
cache_delay == 50             \* asyncio.sleep(0.5 * (attempt + 1))
pace_delay == 34              \* asyncio.sleep(0.34)
llm_delay == 100              \* asyncio.sleep(1.0 * (attempt + 1))

None == 0
Callers == {"a", "b"}
Kinds == {"graph", "cache"}
RetryArgs == 1..MaxRetriesArg

\* ids a graph record can carry: the id the caller generated, or another one
LocalId == "node_id"
RecordIds == {LocalId, "other_id"}
RECURSIVE SeqsUpTo(_, _)
SeqsUpTo(S, n) ==
    IF n = 0 THEN {<<>>}
    ELSE LET shorter == SeqsUpTo(S, n - 1)
         IN  shorter \cup {Append(s, x) : s \in {t \in shorter : Len(t) = n - 1}, x \in S}
RecordLists == SeqsUpTo(RecordIds, MaxRecords)

\* ---------------------------------------------------- values and JSON text
\* A Python value is its type and its items; a JSON text is a sequence of
\* characters.
\* the queries a caller searches for (page 1, 10 per page); one is blank
Queries == {"q", " "}
Blank(query) == query \in {"", " "}
\* line 132: f"pubmed:search:{query}:{page}:{per_page}"
CacheKey(query) == "pubmed:search:" \o query \o ":1:10"
Keys == {CacheKey(q) : q \in {x \in Queries : ~Blank(x)}}
Items == {1}
PyValue(type, items) == [py |-> type, items |-> items]
PyNone == PyValue("NoneType", <<>>)
\* what a caller may hand to cache_set; a set is not JSON serializable
Values ==
    {PyNone, PyValue("set", <<>>)}
    \cup {PyValue(t, i) : t \in {"list", "tuple"}, i \in SeqsUpTo(Items, MaxItems)}
\* no value at all: nothing was stored, nothing was returned
NoValue == PyValue("absent", <<>>)
\* the reply of GET for a key the store does not hold
NoText == <<"nil">>
Digit(n) == IF n = 0 THEN "0" ELSE "1"
Number(ch) == IF ch = "0" THEN 0 ELSE 1
IsDigit(ch) == ch \in {"0", "1"}
\* a text some other program left in the store; it is not JSON
BadText == <<"{">>

\* json.dumps raises TypeError on the other types
Serializable(v) == v.py \in {"NoneType", "int", "str", "list", "tuple"}

\* the items of an array, separated by ", "
RECURSIVE DumpItems(_)
DumpItems(items) ==
    IF items = <<>> THEN <<>>
    ELSE IF Len(items) = 1 THEN <<Digit(items[1])>>
    ELSE <<Digit(items[1]), ",", " ">> \o DumpItems(Tail(items))

\* json.dumps(value): lists and tuples both become arrays
Dumps(v) ==
    CASE v.py = "NoneType" -> <<"n", "u", "l", "l">>
      [] v.py = "int" -> <<Digit(v.items[1])>>
      [] v.py = "str" -> <<"\"">> \o v.items \o <<"\"">>
      [] v.py \in {"list", "tuple"} -> <<"[">> \o DumpItems(v.items) \o <<"]">>

RECURSIVE WellFormedItems(_)
WellFormedItems(t) ==
    \/ t = <<>>
    \/ /\ IsDigit(t[1])
       /\ \/ Len(t) = 1
          \/ /\ Len(t) >= 4
             /\ t[2] = "," /\ t[3] = " "
             /\ WellFormedItems(SubSeq(t, 4, Len(t)))

RECURSIVE ParseItems(_)
ParseItems(t) ==
    IF t = <<>> THEN <<>>
    ELSE IF Len(t) = 1 THEN <<Number(t[1])>>
    ELSE <<Number(t[1])>> \o ParseItems(SubSeq(t, 4, Len(t)))

Inner(t) == SubSeq(t, 2, Len(t) - 1)

\* json.loads(text) raises JSONDecodeError unless the text is JSON
Decodable(t) ==
    \/ t = <<"n", "u", "l", "l">>
    \/ Len(t) = 1 /\ IsDigit(t[1])
    \/ t = <<"\"", "\"">>
    \/ Len(t) >= 2 /\ t[1] = "[" /\ t[Len(t)] = "]" /\ WellFormedItems(Inner(t))

\* json.loads(text): an array becomes a list
Loads(t) ==
    CASE t = <<"n", "u", "l", "l">> -> PyNone
      [] Len(t) = 1 -> PyValue("int", <<Number(t[1])>>)
      [] t = <<"\"", "\"">> -> PyValue("str", <<>>)
      [] OTHER -> PyValue("list", ParseItems(Inner(t)))

\* truth value of a text the store returned (None and "" are false)
TruthyText(t) == t # NoText /\ t # <<>>
\* truth value of a Python value
Truthy(v) ==
    CASE v.py = "NoneType" -> FALSE
      [] v.py = "int" -> v.items # <<0>>
      [] OTHER -> v.items # <<>>

\* ------------------------------------------------------- PubMed documents
\* What parse_pubmed_xml reads of an EFETCH document: whether the text is
\* XML at all and, for each PubmedArticle element in document order, the
\* texts of its PMID, Year, Month and Day elements.  Absent: the element is
\* not there (find returns None); Empty: it is there without text (.text is
\* None).  Every article carries an ArticleTitle.
Absent == "absent"
Empty == "empty"
PmidText(i) == ToString(i)
ArticleElements ==
    [pmid : {Absent} \cup {PmidText(i) : i \in Items},
     year : {Absent, "1999"},
     month : {Absent, Empty, "Jan", "3", "Spring"},
     day : {Absent, Empty, "7"}]
Documents ==
    [wellformed : {TRUE}, elems : SeqsUpTo(ArticleElements, MaxArticles)]
    \cup [wellformed : {FALSE}, elems : {<<>>}]
NoDocument == [wellformed |-> FALSE, elems |-> <<>>]
\* the ids a search asks the articles of
IdTexts == SeqsUpTo({PmidText(i) : i \in Items}, MaxItems)
NotParsed == [outcome |-> "none", articles |-> <<>>]

RECURSIVE Pow2(_)
Pow2(n) == IF n = 0 THEN 1 ELSE 2 * Pow2(n - 1)

VARIABLES
    NEO4J_URI,        \* TRUE iff the environment sets NEO4J_URI
    NEO4J_PASSWORD,   \* TRUE iff the environment sets NEO4J_PASSWORD
    driver,           \* utils_graph.driver  (module global), None or a handle
    redis,            \* utils_pubmed.redis  (module global), None or a handle
    live,             \* [kind -> handles that were built and not closed since]
    up,               \* [kind -> the service answers requests right now]
    running,          \* coroutine holding the event loop, or "none"
    pc,               \* [caller -> label]
    frame,            \* [caller -> local variables of the coroutine]
    log,              \* [caller -> what the current top-level call did (history)]
    store,            \* [key -> text the Redis server holds, or NoText]
    put,              \* [key -> value of the last SET that wrote the text (history)]
    GROQ_API_KEY,     \* TRUE iff the environment sets GROQ_API_KEY
    GROQ_API_URL,     \* TRUE iff the environment sets GROQ_API_URL
    hypothesis,       \* the text handed to clean_hypothesis_text
    cleaned,          \* results of its successive applications to that text (history)
    xml_content,      \* the document handed to parse_pubmed_xml
    xml_ids,          \* the ids handed to it
    parsed,           \* what it came to
    hung              \* service kinds that take requests and never answer them

vars == <<NEO4J_URI, NEO4J_PASSWORD, driver, redis, live, up,
          running, pc, frame, log, store, put,
          GROQ_API_KEY, GROQ_API_URL, hypothesis, cleaned,
          xml_content, xml_ids, parsed, hung>>

config == <<NEO4J_URI, NEO4J_PASSWORD>>
pubmed == <<store, put>>
llm == <<GROQ_API_KEY, GROQ_API_URL, hypothesis, cleaned>>
parse == <<xml_content, xml_ids, parsed>>

AwaitLabels == {"gd_probe", "gd_sleep", "cd_closing", "gr_ping", "gr_closing",
                "gr_sleep", "x_run", "x_collect", "x_sleep",
                "cg_get", "cg_closing", "cg_sleep", "cs_set", "cs_closing", "cs_sleep",
                "s_pace1", "s_esearch", "s_pace2", "s_efetch",
                "gh_post", "gh_sleep"}

NetworkLabels == {"gd_probe", "cd_closing", "gr_ping", "gr_closing", "x_run", "x_collect",
                  "cg_get", "cg_closing", "cs_set", "cs_closing"}

Frame0 ==
    [op |-> "none",          \* top-level operation
     sub |-> "none",         \* who called the acquire: "top" (the caller itself), "exec",
                             \* "cache_get" or "cache_set"
     mr |-> 0,               \* max_retries of the acquire in progress
     attempt |-> 0,          \* loop variable of the acquire in progress
     cyc |-> 0,              \* loop variable `attempt` of execute_query_with_retry
     h |-> None,             \* handle the pending await works on
     got |-> None,           \* value the acquire returned to its caller
     after_close |-> "none", \* where close_driver returns to
     close_error |-> FALSE,  \* the last close() raised an error (kept for the calls
                             \* of get_driver_with_retry, get_redis_with_retry and
                             \* close_driver a caller makes itself)
     db_driver |-> None,     \* db_driver of execute_query_with_retry, until the
                             \* handling of a failed cycle is over
     cmr |-> 0,              \* max_retries of cache_get / cache_set
     catt |-> 0,             \* loop variable `attempt` of cache_get / cache_set
     key |-> "none",         \* key of cache_get / cache_set
     value |-> NoValue,      \* value of cache_set / value cache_get returned
     r |-> None,             \* r of cache_get / cache_set in the round that failed
                             \* last or is running
     text |-> <<>>,          \* text generate_hypothesis returned
     ep |-> "none",          \* the route handler the operation runs for
     stage |-> 0,            \* how many operations that handler has started
     payload |-> {},         \* fields of the payload of ingest_historical
     found |-> <<>>,         \* for each get_node_by_id of the handler: a node came back
     status |-> 0,           \* HTTP status of the response (0: none yet)
     result |-> <<>>,        \* records the store holds for the running query
     e |-> "none",           \* the exception being handled
     ret |-> None,           \* value returned by the acquire / the operation
     outcome |-> "none"]     \* "return" or "raise" of the top-level operation

Log0 ==
    [slot0 |-> None,         \* slot content when the call started
     live0 |-> FALSE,        \* that handle was not closed when the call started
     attempts |-> <<>>,      \* outcome of each loop iteration of the acquire
     delays |-> <<>>,        \* backoff sleeps of the acquire, in order
     connects |-> 0,         \* calls of the connect primitive by the acquire
     made |-> {},            \* handles the connect primitive built for the acquire
     acquires |-> 0,         \* acquisitions started by execute_query_with_retry
     cycles |-> <<>>,        \* outcome of each cycle of execute_query_with_retry
     xdelays |-> <<>>,       \* sleeps between cycles
     reply |-> <<>>,         \* record list the store sent in the last cycle
     replied |-> FALSE,      \* the store sent a complete record list
     created |-> 0,          \* times the store committed the CREATE of this call
     rounds |-> <<>>,        \* outcome of each loop round of cache_get / cache_set
     cdelays |-> <<>>,       \* sleeps between these rounds
     cmds |-> 0,             \* GET / SET commands sent to the cache store
     events |-> <<>>,        \* what search_pubmed_articles did after the cache lookup
     paces |-> <<>>,         \* its pacing sleeps
     calls |-> <<>>,         \* how its calls of cache_get / cache_set ended ("ok": the
                             \* store answered, "fail": every round failed)
     es |-> [kind |-> "none", ids |-> <<>>],     \* the reply of ESEARCH
     ef |-> [kind |-> "none", wellformed |-> FALSE, pmids |-> <<>>],  \* the reply of EFETCH
     stored |-> NoValue,     \* the value it handed to cache_set
     posts |-> 0,            \* POST requests generate_hypothesis sent
     replies |-> <<>>,       \* what came back for each of them
     waits |-> <<>>,         \* its sleeps between attempts
     ops |-> <<>>]           \* operations the route handler started, in order

Init ==
    /\ NEO4J_URI \in BOOLEAN
    /\ NEO4J_PASSWORD \in BOOLEAN
    /\ driver = None
    /\ redis = None
    /\ live = [k \in Kinds |-> {}]
    /\ up = [k \in Kinds |-> TRUE]
    /\ running = "none"
    /\ pc = [c \in Callers |-> "idle"]
    /\ frame = [c \in Callers |-> Frame0]
    /\ log = [c \in Callers |-> Log0]
    /\ store = [k \in Keys |-> NoText]
    /\ put = [k \in Keys |-> NoValue]
    /\ GROQ_API_KEY = TRUE
    /\ GROQ_API_URL = TRUE
    /\ hypothesis = <<>>
    /\ cleaned = <<>>
    /\ xml_content = NoDocument
    /\ xml_ids = <<>>
    /\ parsed = NotParsed
    /\ hung = {}

\* the service a top-level operation talks to
KindOf(opname) ==
    IF opname \in {"get_redis", "cache_get", "cache_set", "search"} THEN "cache" ELSE "graph"

\* ------------------------------------------------------------ environment
\* The external service goes down or comes back while a request to it is
\* pending.
EnvToggle(k) ==
    /\ running = "none"
    /\ \E c \in Callers : pc[c] \in NetworkLabels /\ KindOf(frame[c].op) = k
    /\ up' = [up EXCEPT ![k] = ~up[k]]
    /\ UNCHANGED <<config, parse, hung, pubmed, llm, driver, redis, live, running, pc, frame, log>>

\* a request sent on handle h of kind k is answered
Answers(k, h) == up[k] /\ h \in live[k]

\* The awaits on a Neo4j session or on the Redis client that wait for an answer
\* of the server.  None of them is given a time limit: the driver is built
\* with connection_timeout alone (utils_graph.py line 70), which bounds the
\* opening of a connection, Redis.from_url is given no socket_timeout
\* (utils_pubmed.py line 40), and no await is wrapped in asyncio.wait_for.
\* The HTTP requests run in sessions with ClientTimeout(total=30): their time-out
\* is one of the replies of s_esearch, s_efetch and gh_post.
UnboundedLabels == {"gd_probe", "x_run", "x_collect", "gr_ping", "cg_get", "cs_set"}

\* the service of kind k has taken the request and never answers it: the
\* await does not resume
Stalled(k) == k \in hung

\* a service stops answering, for good, while a request to it is pending
EnvHang(k) ==
    /\ running = "none"
    /\ k \notin hung
    /\ \E c \in Callers : pc[c] \in UnboundedLabels /\ KindOf(frame[c].op) = k
    /\ hung' = hung \cup {k}
    /\ UNCHANGED <<config, parse, pubmed, llm, driver, redis, live, up, running, pc, frame, log>>

Slot(k) == IF k = "graph" THEN driver ELSE redis

\* handles of kind k something still refers to
Referenced(k) ==
    ({Slot(k)} \cup UNION {{frame[c].h, frame[c].got, frame[c].db_driver, frame[c].r, log[c].slot0} :
                             c \in {d \in Callers : KindOf(frame[d].op) = k}}) \ {None}

Known(k) == live[k] \cup Referenced(k)

\* the identity the connect primitive gives to the handle it builds
NewHandle(k) ==
    CHOOSE i \in 1..(Cardinality(Known(k)) + 1) :
        /\ i \notin Known(k)
        /\ \A j \in 1..(i - 1) : j \in Known(k)

\* A request starts when the event loop is free.  A caller makes requests
\* one after the other as long as it is alone; once a second caller has
\* started, each of them completes the request it is in.
CanCall(c) ==
    /\ running = "none"
    /\ \/ pc[c] = "idle"
       \/ /\ pc[c] = "done"
          /\ \A d \in Callers \ {c} : pc[d] = "idle"
          /\ Cardinality(Known("graph")) + Cardinality(Known("cache")) <= MaxPrior

\* a code step of the running coroutine / the resumption of a suspended one
Runs(c, label) == running = c /\ pc[c] = label
Resumes(c, label) == running = "none" /\ pc[c] = label

Goto(c, label) == pc' = [pc EXCEPT ![c] = label]
\* control stays with c unless the next label is a suspension point or the end
Sched(c, label) == running' = IF label \in AwaitLabels \cup {"done"} THEN "none" ELSE c

Step(c, label) == Goto(c, label) /\ Sched(c, label)

\* where an operation hands control back: to the route handler that awaits
\* it, if there is one
Done(c) ==
    CASE frame[c].ep = "ingest_historical" -> "ih_created"
      [] frame[c].ep = "hypothesis" ->
            <<"he_historical", "he_modern", "he_generated", "he_connected">>[frame[c].stage]
      [] OTHER -> "done"

\* ===================================================== utils_graph.py ====

\* what is kept of the outcome of a close(): an operation that closes a handle
\* on the way goes on in the same way whether the close raised or not
CloseError(c, err) == err /\ frame[c].op \in {"get_driver", "get_redis", "close_driver"}

\* where an acquire hands control back
AcquireReturn(c) == IF frame[c].sub = "exec" THEN "x_got_driver" ELSE "done"

\* a caller invokes get_driver_with_retry(max_retries = mr)
CallGetDriver(c, mr) ==
    /\ CanCall(c)
    /\ frame' = [frame EXCEPT ![c] = [Frame0 EXCEPT !.op = "get_driver", !.sub = "top", !.mr = mr]]
    /\ log' = [log EXCEPT ![c] = [Log0 EXCEPT !.slot0 = driver,
                                             !.live0 = driver \in live["graph"]]]
    /\ Step(c, "gd_enter")
    /\ UNCHANGED <<config, parse, hung, pubmed, llm, driver, redis, live, up>>

\* get_driver_with_retry, lines 44-58: `driver = None`, then the reuse test.
\* The test reads the value just assigned, so the reuse probe (lines 49-56)
\* is never entered and the loop starts with attempt = 1.
GDEnter(c) ==
    /\ Runs(c, "gd_enter")
    /\ driver' = None
    /\ frame' = [frame EXCEPT ![c].attempt = 1]
    /\ log' = [log EXCEPT ![c].attempts = <<>>, ![c].delays = <<>>,
                          ![c].connects = 0, ![c].made = {}]
    /\ Step(c, IF driver' # None THEN "gd_reuse" ELSE "gd_try")
    /\ UNCHANGED <<config, parse, hung, pubmed, llm, redis, live, up>>

\* lines 59-76: configuration test, AsyncGraphDatabase.driver(...), session.run("RETURN 1")
GDTry(c) ==
    /\ Runs(c, "gd_try")
    /\ IF ~NEO4J_URI \/ ~NEO4J_PASSWORD
       THEN /\ frame' = [frame EXCEPT ![c].e = "ValueError"]
            /\ Step(c, "gd_except")
            /\ UNCHANGED <<driver, live, log>>
       ELSE /\ driver' = NewHandle("graph")
            /\ live' = [live EXCEPT !["graph"] = @ \cup {driver'}]
            /\ frame' = [frame EXCEPT ![c].h = driver']
            /\ log' = [log EXCEPT ![c].made = @ \cup {driver'}, ![c].connects = @ + 1]
            /\ Step(c, "gd_probe")
    /\ UNCHANGED <<config, parse, hung, pubmed, llm, redis, up>>

\* lines 76-79: the probe is answered, `return driver` reads the global
GDProbe(c) ==
    /\ Resumes(c, "gd_probe")
    /\ ~Stalled("graph")
    /\ IF Answers("graph", frame[c].h)
       THEN /\ frame' = [frame EXCEPT ![c].got = driver, ![c].h = None,
                                      ![c].outcome = IF frame[c].sub = "top" THEN "return" ELSE @]
            /\ log' = [log EXCEPT ![c].attempts = Append(@, "ok")]
            /\ Step(c, AcquireReturn(c))
       ELSE /\ frame' = [frame EXCEPT ![c].e = "ServiceUnavailable", ![c].h = None]
            /\ Step(c, "gd_except")
            /\ UNCHANGED log
    /\ UNCHANGED <<config, parse, hung, pubmed, llm, driver, redis, live, up>>

\* lines 81-83: except Exception: await close_driver()
GDExcept(c) ==
    /\ Runs(c, "gd_except")
    /\ frame' = [frame EXCEPT ![c].after_close = "gd_backoff"]
    /\ log' = [log EXCEPT ![c].attempts = Append(@, "fail")]
    /\ Step(c, "cd_enter")
    /\ UNCHANGED <<config, parse, hung, pubmed, llm, driver, redis, live, up>>

\* variant: the same delay before every attempt
DriverBackoffFlat(attempt) == retry_delay

\* line 86: backoff = retry_delay * (2 ** (attempt - 1))
DriverBackoff(attempt) == retry_delay * Pow2(attempt - 1)

\* lines 85-91: backoff before the next attempt, or give up with None
GDBackoff(c) ==
    /\ Runs(c, "gd_backoff")
    /\ IF frame[c].attempt < frame[c].mr
       THEN /\ log' = [log EXCEPT ![c].delays = Append(@, DriverBackoff(frame[c].attempt))]
            /\ Step(c, "gd_sleep")
            /\ UNCHANGED frame
       ELSE /\ frame' = [frame EXCEPT ![c].got = None,
                                      ![c].outcome = IF frame[c].sub = "top" THEN "return" ELSE @]
            /\ Step(c, AcquireReturn(c))
            /\ UNCHANGED log
    /\ UNCHANGED <<config, parse, hung, pubmed, llm, driver, redis, live, up>>

\* line 88 resumes, line 58: next attempt
GDSleep(c) ==
    /\ Resumes(c, "gd_sleep")
    /\ frame' = [frame EXCEPT ![c].attempt = @ + 1]
    /\ Step(c, "gd_try")
    /\ UNCHANGED <<config, parse, hung, pubmed, llm, driver, redis, live, up, log>>

\* a caller invokes close_driver()
CallCloseDriver(c) ==
    /\ CanCall(c)
    /\ frame' = [frame EXCEPT ![c] = [Frame0 EXCEPT !.op = "close_driver", !.after_close = "done"]]
    /\ log' = [log EXCEPT ![c] = [Log0 EXCEPT !.slot0 = driver,
                                             !.live0 = driver \in live["graph"]]]
    /\ Step(c, "cd_enter")
    /\ UNCHANGED <<config, parse, hung, pubmed, llm, driver, redis, live, up>>

\* close_driver, lines 99-102: nothing to do without a driver, else driver.close()
CDEnter(c) ==
    /\ Runs(c, "cd_enter")
    /\ IF driver # None
       THEN /\ frame' = [frame EXCEPT ![c].h = driver]
            /\ Step(c, "cd_closing")
       ELSE /\ frame' = [frame EXCEPT ![c].outcome = IF frame[c].after_close = "done" THEN "return" ELSE @]
            /\ Step(c, frame[c].after_close)
    /\ UNCHANGED <<config, parse, hung, pubmed, llm, driver, redis, live, up, log>>

\* variant: the driver is closed but the slot keeps referring to it
CDClosingKeepsSlot(c) ==
    /\ Resumes(c, "cd_closing")
    /\ live' = [live EXCEPT !["graph"] = @ \ {frame[c].h}]
    /\ frame' = [frame EXCEPT ![c].h = None,
                              ![c].outcome = IF frame[c].after_close = "done" THEN "return" ELSE @]
    /\ Step(c, frame[c].after_close)
    /\ UNCHANGED <<config, parse, hung, pubmed, llm, driver, redis, up, log>>

\* lines 102-107: close() is over, with or without an error (the handle is
\* given up either way); except Exception logs the error, finally: driver = None
CDClosing(c) ==
    /\ Resumes(c, "cd_closing")
    /\ live' = [live EXCEPT !["graph"] = @ \ {frame[c].h}]
    /\ driver' = None
    /\ \E err \in BOOLEAN :
           frame' = [frame EXCEPT ![c].h = None, ![c].close_error = CloseError(c, err),
                                  ![c].outcome = IF frame[c].after_close = "done"
                                                 THEN "return" ELSE @]
    /\ Step(c, frame[c].after_close)
    /\ UNCHANGED <<config, parse, hung, pubmed, llm, redis, up, log>>

\* --------------------------------------------- execute_query_with_retry

CallStart(c, opname, slot) ==
    /\ CanCall(c)
    /\ frame' = [frame EXCEPT ![c] = [Frame0 EXCEPT !.op = opname, !.cyc = 1, !.attempt = 0]]
    /\ log' = [log EXCEPT ![c] = [Log0 EXCEPT !.slot0 = slot]]

\* a caller invokes execute_query_with_retry(query, parameters)
CallExecute(c) ==
    /\ CallStart(c, "execute", driver)
    /\ Step(c, "x_try")
    /\ UNCHANGED <<config, parse, hung, pubmed, llm, driver, redis, live, up>>

\* a caller invokes create_historical_observation, create_modern_study or
\* create_hypothesis_connection (lines 141-157, 168-196, 224-242): a node id
\* is generated and the CREATE query goes to execute_query_with_retry
CallCreate(c) ==
    /\ CallStart(c, "create", driver)
    /\ Step(c, "x_try")
    /\ UNCHANGED <<config, parse, hung, pubmed, llm, driver, redis, live, up>>

\* a caller invokes get_node_by_id(node_id) (lines 207-214): the MATCH query
\* goes to execute_query_with_retry
CallGetNode(c) ==
    /\ CallStart(c, "get_node", driver)
    /\ Step(c, "x_try")
    /\ UNCHANGED <<config, parse, hung, pubmed, llm, driver, redis, live, up>>

\* lines 118-120: db_driver = await get_driver_with_retry()
XTry(c) ==
    /\ Runs(c, "x_try")
    /\ frame' = [frame EXCEPT ![c].sub = "exec", ![c].mr = max_retries_default]
    /\ log' = [log EXCEPT ![c].acquires = @ + 1]
    /\ Step(c, "gd_enter")
    /\ UNCHANGED <<config, parse, hung, pubmed, llm, driver, redis, live, up>>

\* lines 120-125: None raises ConnectionError, else session.run(query, parameters)
XGotDriver(c) ==
    /\ Runs(c, "x_got_driver")
    /\ IF frame[c].got = None
       THEN /\ frame' = [frame EXCEPT ![c].db_driver = None, ![c].e = "ConnectionError"]
            /\ Step(c, "x_except")
       ELSE /\ frame' = [frame EXCEPT ![c].db_driver = frame[c].got, ![c].h = frame[c].got,
                                      ![c].got = None]
            /\ Step(c, "x_run")
    /\ UNCHANGED <<config, parse, hung, pubmed, llm, driver, redis, live, up, log>>

\* line 125 resumes: the store ran the query and holds its records, or the run failed
XRun(c) ==
    /\ Resumes(c, "x_run")
    /\ ~Stalled("graph")
    /\ IF Answers("graph", frame[c].h)
       THEN /\ \E recs \in RecordLists : frame' = [frame EXCEPT ![c].result = recs]
            /\ Step(c, "x_collect")
       ELSE /\ frame' = [frame EXCEPT ![c].e = "QueryError"]
            /\ Step(c, "x_except")
    /\ UNCHANGED <<config, parse, hung, pubmed, llm, driver, redis, live, up, log>>

\* variant: only the first record of the stream is kept
CollectedFirst(result) == IF result = <<>> THEN <<>> ELSE <<Head(result)>>

\* the record list execute_query_with_retry returns from a result stream
Collected(result) == result

\* where execute_query_with_retry hands control back
ExecuteReturn(c) ==
    CASE frame[c].op = "create" -> "cr_records"
      [] frame[c].op = "get_node" -> "gn_records"
      [] OTHER -> "done"

\* The query runs in an auto-commit transaction: the store commits it when
\* the last record has been produced.  A stream that breaks leaves the client
\* without the knowledge of whether that point was reached.
Committed(opname, committed) == IF opname = "create" /\ committed THEN 1 ELSE 0

\* lines 126-127: records = [record async for record in result]; return records
XCollect(c) ==
    /\ Resumes(c, "x_collect")
    /\ ~Stalled("graph")
    /\ IF Answers("graph", frame[c].h)
       THEN /\ frame' = [frame EXCEPT ![c].ret = Collected(frame[c].result),
                                      ![c].result = <<>>, ![c].h = None, ![c].db_driver = None,
                                      ![c].outcome = IF frame[c].op = "execute" THEN "return" ELSE @]
            /\ log' = [log EXCEPT ![c].cycles = Append(@, "ok"),
                                  ![c].reply = frame[c].result,
                                  ![c].replied = TRUE,
                                  ![c].created = @ + Committed(frame[c].op, TRUE)]
            /\ Step(c, ExecuteReturn(c))
       ELSE /\ frame' = [frame EXCEPT ![c].e = "StreamError", ![c].result = <<>>]
            /\ \E committed \in BOOLEAN :
                   log' = [log EXCEPT ![c].created = @ + Committed(frame[c].op, committed)]
            /\ Step(c, "x_except")
    /\ UNCHANGED <<config, parse, hung, pubmed, llm, driver, redis, live, up>>

\* lines 129-131: except Exception as e: await close_driver()
XExcept(c) ==
    /\ Runs(c, "x_except")
    /\ frame' = [frame EXCEPT ![c].after_close = "x_backoff", ![c].h = None]
    /\ log' = [log EXCEPT ![c].cycles = Append(@, frame[c].e)]
    /\ Step(c, "cd_enter")
    /\ UNCHANGED <<config, parse, hung, pubmed, llm, driver, redis, live, up>>

\* the exception execute_query_with_retry raises after the last cycle
Raised(e) == e

\* lines 133-137: sleep(0.5 * attempt) and go round again, or re-raise e
\* (the creation functions log it and re-raise it, lines 164-166)
XBackoff(c) ==
    /\ Runs(c, "x_backoff")
    /\ IF frame[c].cyc < max_retries_default
       THEN /\ log' = [log EXCEPT ![c].xdelays = Append(@, query_delay * frame[c].cyc)]
            /\ frame' = [frame EXCEPT ![c].db_driver = None]
            /\ Step(c, "x_sleep")
       ELSE /\ frame' = [frame EXCEPT ![c].outcome = "raise", ![c].e = Raised(frame[c].e),
                                      ![c].db_driver = None]
            /\ Step(c, Done(c))
            /\ UNCHANGED log
    /\ UNCHANGED <<config, parse, hung, pubmed, llm, driver, redis, live, up>>

\* line 134 resumes, line 118: next cycle
XSleep(c) ==
    /\ Resumes(c, "x_sleep")
    /\ frame' = [frame EXCEPT ![c].cyc = @ + 1]
    /\ Step(c, "x_try")
    /\ UNCHANGED <<config, parse, hung, pubmed, llm, driver, redis, live, up, log>>

\* variant: without a record the id generated locally is returned
CreateResultLocalId(records) ==
    [outcome |-> "return", e |-> "none",
     ret |-> IF records = <<>> THEN LocalId ELSE Head(records)]

\* what a creation function does with the records it got back:
\* lines 158-163 (197-202, 243-248): no record is an error, else records[0]["id"]
CreateResult(records) ==
    IF records = <<>> THEN [outcome |-> "raise", e |-> "NoRecords", ret |-> None]
    ELSE [outcome |-> "return", e |-> "none", ret |-> Head(records)]

CRRecords(c) ==
    /\ Runs(c, "cr_records")
    /\ LET r == CreateResult(frame[c].ret)
       IN  frame' = [frame EXCEPT ![c].outcome = r.outcome,
                                  ![c].e = IF r.outcome = "raise" THEN r.e ELSE @,
                                  ![c].ret = r.ret]
    /\ Step(c, Done(c))
    /\ UNCHANGED <<config, parse, hung, pubmed, llm, driver, redis, live, up, log>>

\* variant: no record is reported as an error, as the creation functions do
GetNodeResultRaises(records) ==
    IF records = <<>> THEN [outcome |-> "raise", e |-> "NoRecords", ret |-> None]
    ELSE [outcome |-> "return", e |-> "none", ret |-> Head(records)]

\* what get_node_by_id does with the records it got back:
\* lines 215-219: no record is "not found" (None), else the node of records[0]
GetNodeResult(records) ==
    IF records = <<>> THEN [outcome |-> "return", e |-> "none", ret |-> None]
    ELSE [outcome |-> "return", e |-> "none", ret |-> Head(records)]

GNRecords(c) ==
    /\ Runs(c, "gn_records")
    /\ LET r == GetNodeResult(frame[c].ret)
       IN  frame' = [frame EXCEPT ![c].outcome = r.outcome,
                                  ![c].e = IF r.outcome = "raise" THEN r.e ELSE @,
                                  ![c].ret = r.ret]
    /\ Step(c, Done(c))
    /\ UNCHANGED <<config, parse, hung, pubmed, llm, driver, redis, live, up, log>>

\* ==================================================== utils_pubmed.py ====

\* a caller invokes get_redis_with_retry(max_retries = mr)
CallGetRedis(c, mr) ==
    /\ CanCall(c)
    /\ frame' = [frame EXCEPT ![c] = [Frame0 EXCEPT !.op = "get_redis", !.sub = "top", !.mr = mr]]
    /\ log' = [log EXCEPT ![c] = [Log0 EXCEPT !.slot0 = redis,
                                             !.live0 = redis \in live["cache"]]]
    /\ Step(c, "gr_try")
    /\ UNCHANGED <<config, parse, hung, pubmed, llm, driver, redis, live, up>>

\* lines 37-43: Redis.from_url(...) when the slot is empty, then redis.ping()
GRTry(c) ==
    /\ Runs(c, "gr_try")
    /\ IF redis = None
       THEN /\ redis' = NewHandle("cache")
            /\ live' = [live EXCEPT !["cache"] = @ \cup {redis'}]
            /\ log' = [log EXCEPT ![c].made = @ \cup {redis'}, ![c].connects = @ + 1]
       ELSE UNCHANGED <<live, redis, log>>
    /\ frame' = [frame EXCEPT ![c].h = redis']
    /\ Step(c, "gr_ping")
    /\ UNCHANGED <<config, parse, hung, pubmed, llm, driver, up>>

\* where get_redis_with_retry hands control back when it returns
RedisReturn(c) ==
    CASE frame[c].sub = "cache_get" -> "cg_send"
      [] frame[c].sub = "cache_set" -> "cs_send"
      [] OTHER -> "done"

\* where the error get_redis_with_retry raises is handled
RedisRaise(c) ==
    CASE frame[c].sub = "cache_get" -> "cg_except"
      [] frame[c].sub = "cache_set" -> "cs_except"
      [] OTHER -> "done"

\* lines 43-45: the ping is answered, `return redis` reads the global
GRPing(c) ==
    /\ Resumes(c, "gr_ping")
    /\ ~Stalled("cache")
    /\ IF Answers("cache", frame[c].h)
       THEN /\ frame' = [frame EXCEPT ![c].got = redis, ![c].h = None,
                                      ![c].outcome = IF frame[c].sub = "top" THEN "return" ELSE @]
            /\ log' = [log EXCEPT ![c].attempts = Append(@, "ok")]
            /\ Step(c, RedisReturn(c))
       ELSE /\ frame' = [frame EXCEPT ![c].e = "ConnectionError", ![c].h = None]
            /\ log' = [log EXCEPT ![c].attempts = Append(@, "fail")]
            /\ Step(c, "gr_except")
    /\ UNCHANGED <<config, parse, hung, pubmed, llm, driver, redis, live, up>>

\* lines 47-53: close the failed connection if the slot holds one
GRExcept(c) ==
    /\ Runs(c, "gr_except")
    /\ IF redis # None
       THEN /\ frame' = [frame EXCEPT ![c].h = redis]
            /\ Step(c, "gr_closing")
       ELSE /\ Step(c, "gr_backoff")
            /\ UNCHANGED frame
    /\ UNCHANGED <<config, parse, hung, pubmed, llm, driver, redis, live, up, log>>

\* variant: an error of close() leaves the except branch, redis = None is not reached
GRClosingPropagates(c) ==
    /\ Resumes(c, "gr_closing")
    /\ live' = [live EXCEPT !["cache"] = @ \ {frame[c].h}]
    /\ \E err \in BOOLEAN :
           IF err
           THEN /\ redis' = redis
                /\ frame' = [frame EXCEPT ![c].h = None, ![c].close_error = TRUE,
                                          ![c].e = "CloseError",
                                          ![c].outcome = IF frame[c].sub = "top"
                                                         THEN "raise" ELSE @]
                /\ Step(c, RedisRaise(c))
           ELSE /\ redis' = None
                /\ frame' = [frame EXCEPT ![c].h = None, ![c].close_error = FALSE]
                /\ Step(c, "gr_backoff")
    /\ UNCHANGED <<config, parse, hung, pubmed, llm, driver, up, log>>

\* lines 53-56: close() is over, with or without an error (the handle is given
\* up either way); the bare except drops the error, redis = None
GRClosing(c) ==
    /\ Resumes(c, "gr_closing")
    /\ live' = [live EXCEPT !["cache"] = @ \ {frame[c].h}]
    /\ redis' = None
    /\ \E err \in BOOLEAN :
           frame' = [frame EXCEPT ![c].h = None, ![c].close_error = CloseError(c, err)]
    /\ Step(c, "gr_backoff")
    /\ UNCHANGED <<config, parse, hung, pubmed, llm, driver, up, log>>

\* line 59: retry_delay * (attempt + 1)
RedisBackoff(attempt) == retry_delay * (attempt + 1)

\* lines 58-62: sleep for the backoff and go round again, or raise e
GRBackoff(c) ==
    /\ Runs(c, "gr_backoff")
    /\ IF frame[c].attempt < frame[c].mr - 1
       THEN /\ log' = [log EXCEPT ![c].delays = Append(@, RedisBackoff(frame[c].attempt))]
            /\ Step(c, "gr_sleep")
            /\ UNCHANGED frame
       ELSE /\ frame' = [frame EXCEPT ![c].outcome = IF frame[c].sub = "top" THEN "raise" ELSE @]
            /\ Step(c, RedisRaise(c))
            /\ UNCHANGED log
    /\ UNCHANGED <<config, parse, hung, pubmed, llm, driver, redis, live, up>>

\* line 59 resumes, line 37: next attempt
GRSleep(c) ==
    /\ Resumes(c, "gr_sleep")
    /\ frame' = [frame EXCEPT ![c].attempt = @ + 1]
    /\ Step(c, "gr_try")
    /\ UNCHANGED <<config, parse, hung, pubmed, llm, driver, redis, live, up, log>>

\* ------------------------------------------------- cache_get, cache_set

\* where cache_get / cache_set hand control back
CacheGetReturn(c) == IF frame[c].op = "search" THEN "s_cached" ELSE "done"
CacheSetReturn(c) == IF frame[c].op = "search" THEN "s_stored" ELSE "done"

\* lines 89, 114: 0.5 * (attempt + 1)
CacheBackoff(attempt) == cache_delay * (attempt + 1)

\* the call get_redis_with_retry() of lines 76 and 99, all arguments defaulted
EnterRedis(c, from) ==
    /\ frame' = [frame EXCEPT ![c].sub = from, ![c].mr = max_retries_default,
                              ![c].attempt = 0, ![c].got = None, ![c].r = None]
    /\ log' = [log EXCEPT ![c].attempts = <<>>, ![c].delays = <<>>,
                          ![c].connects = 0, ![c].made = {}]

\* a caller invokes cache_get(key, max_retries = mr)
CallCacheGet(c, k, mr) ==
    /\ CanCall(c)
    /\ frame' = [frame EXCEPT ![c] = [Frame0 EXCEPT !.op = "cache_get", !.key = k, !.cmr = mr]]
    /\ log' = [log EXCEPT ![c] = [Log0 EXCEPT !.slot0 = redis,
                                             !.live0 = redis \in live["cache"]]]
    /\ Step(c, "cg_try")
    /\ UNCHANGED <<config, parse, hung, pubmed, llm, driver, redis, live, up>>

\* lines 97-99: r = await get_redis_with_retry()
CGTry(c) ==
    /\ Runs(c, "cg_try")
    /\ EnterRedis(c, "cache_get")
    /\ Step(c, "gr_try")
    /\ UNCHANGED <<config, parse, hung, pubmed, llm, driver, redis, live, up>>

\* line 100: r.get(key) is sent (r is what the acquire returned)
CGSend(c) ==
    /\ Runs(c, "cg_send")
    /\ IF frame[c].got = None
       THEN /\ frame' = [frame EXCEPT ![c].e = "AttributeError"]
            /\ Step(c, "cg_except")
            /\ UNCHANGED log
       ELSE /\ frame' = [frame EXCEPT ![c].r = frame[c].got, ![c].got = None]
            /\ log' = [log EXCEPT ![c].cmds = @ + 1]
            /\ Step(c, "cg_get")
    /\ UNCHANGED <<config, parse, hung, pubmed, llm, driver, redis, live, up>>

\* variant: the truth value of the decoded value decides, not that of the text
CacheGetResultByValue(result) ==
    IF TruthyText(result) /\ Decodable(result) /\ ~Truthy(Loads(result))
    THEN [outcome |-> "return", e |-> "none", value |-> PyNone]
    ELSE IF TruthyText(result)
    THEN IF Decodable(result)
         THEN [outcome |-> "return", e |-> "none", value |-> Loads(result)]
         ELSE [outcome |-> "raise", e |-> "JSONDecodeError", value |-> NoValue]
    ELSE [outcome |-> "return", e |-> "none", value |-> PyNone]

\* lines 101-103: what cache_get makes of the reply of GET
CacheGetResult(result) ==
    IF TruthyText(result)
    THEN IF Decodable(result)
         THEN [outcome |-> "return", e |-> "none", value |-> Loads(result)]
         ELSE [outcome |-> "raise", e |-> "JSONDecodeError", value |-> NoValue]
    ELSE [outcome |-> "return", e |-> "none", value |-> PyNone]

\* lines 100-103: the reply of GET arrives, or the connection fails
CGGet(c) ==
    /\ Resumes(c, "cg_get")
    /\ ~Stalled("cache")
    /\ LET res == IF Answers("cache", frame[c].r)
                  THEN CacheGetResult(store[frame[c].key])
                  ELSE [outcome |-> "raise", e |-> "ConnectionError", value |-> NoValue]
       IN  IF res.outcome = "return"
           THEN /\ frame' = [frame EXCEPT ![c].r = None, ![c].value = res.value,
                                          ![c].outcome = IF frame[c].op = "cache_get"
                                                         THEN "return" ELSE @]
                /\ log' = [log EXCEPT ![c].rounds = Append(@, "ok")]
                /\ Step(c, CacheGetReturn(c))
           ELSE /\ frame' = [frame EXCEPT ![c].e = res.e]
                /\ UNCHANGED log
                /\ Step(c, "cg_except")
    /\ UNCHANGED <<config, parse, hung, pubmed, llm, driver, redis, live, up>>

\* variant: the last error is passed on to the caller
CacheGetGiveUpRaises(e) == [outcome |-> "raise", e |-> e, value |-> NoValue]

\* lines 114-118: the last round failed: log, return None
CacheGetGiveUp(e) == [outcome |-> "return", e |-> "none", value |-> PyNone]

\* lines 104-118: close the client and sleep, or give up and return None
CGExcept(c) ==
    /\ Runs(c, "cg_except")
    /\ IF frame[c].catt < frame[c].cmr - 1
       THEN IF redis # None
            THEN /\ frame' = [frame EXCEPT ![c].h = redis]
                 /\ log' = [log EXCEPT ![c].rounds = Append(@, "fail")]
                 /\ Step(c, "cg_closing")
            ELSE /\ log' = [log EXCEPT ![c].rounds = Append(@, "fail"),
                                       ![c].cdelays = Append(@, CacheBackoff(frame[c].catt))]
                 /\ Step(c, "cg_sleep")
                 /\ UNCHANGED frame
       ELSE /\ LET g == CacheGetGiveUp(frame[c].e)
               IN  /\ frame' = [frame EXCEPT ![c].value = g.value,
                                              ![c].outcome = IF frame[c].op = "cache_get"
                                                                \/ g.outcome = "raise"
                                                             THEN g.outcome ELSE @]
                   /\ Step(c, IF g.outcome = "raise" THEN "done" ELSE CacheGetReturn(c))
            /\ log' = [log EXCEPT ![c].rounds = Append(@, "fail")]
    /\ UNCHANGED <<config, parse, hung, pubmed, llm, driver, redis, live, up>>

\* lines 107-113: close() is over (an error it raised is dropped), redis = None
CGClosing(c) ==
    /\ Resumes(c, "cg_closing")
    /\ live' = [live EXCEPT !["cache"] = @ \ {frame[c].h}]
    /\ redis' = None
    /\ frame' = [frame EXCEPT ![c].h = None]
    /\ log' = [log EXCEPT ![c].cdelays = Append(@, CacheBackoff(frame[c].catt))]
    /\ Step(c, "cg_sleep")
    /\ UNCHANGED <<config, parse, hung, pubmed, llm, driver, up>>

\* line 114 resumes, line 97: next round
CGSleep(c) ==
    /\ Resumes(c, "cg_sleep")
    /\ frame' = [frame EXCEPT ![c].catt = @ + 1]
    /\ Step(c, "cg_try")
    /\ UNCHANGED <<config, parse, hung, pubmed, llm, driver, redis, live, up, log>>

\* a caller invokes cache_set(key, value, ttl, max_retries = mr)
CallCacheSet(c, k, v, mr) ==
    /\ CanCall(c)
    /\ frame' = [frame EXCEPT ![c] = [Frame0 EXCEPT !.op = "cache_set", !.key = k,
                                                    !.value = v, !.cmr = mr]]
    /\ log' = [log EXCEPT ![c] = [Log0 EXCEPT !.slot0 = redis,
                                             !.live0 = redis \in live["cache"]]]
    /\ Step(c, "cs_try")
    /\ UNCHANGED <<config, parse, hung, pubmed, llm, driver, redis, live, up>>

\* lines 74-76: r = await get_redis_with_retry()
CSTry(c) ==
    /\ Runs(c, "cs_try")
    /\ EnterRedis(c, "cache_set")
    /\ Step(c, "gr_try")
    /\ UNCHANGED <<config, parse, hung, pubmed, llm, driver, redis, live, up>>

\* line 77: json.dumps(value), then r.set(key, text, ex=ttl) is sent
CSSend(c) ==
    /\ Runs(c, "cs_send")
    /\ IF frame[c].got = None \/ ~Serializable(frame[c].value)
       THEN /\ frame' = [frame EXCEPT ![c].e = IF frame[c].got = None THEN "AttributeError"
                                                ELSE "TypeError",
                                      ![c].r = frame[c].got, ![c].got = None]
            /\ Step(c, "cs_except")
            /\ UNCHANGED log
       ELSE /\ frame' = [frame EXCEPT ![c].r = frame[c].got, ![c].got = None]
            /\ log' = [log EXCEPT ![c].cmds = @ + 1]
            /\ Step(c, "cs_set")
    /\ UNCHANGED <<config, parse, hung, pubmed, llm, driver, redis, live, up>>

\* lines 77-78: the store took the text, or the connection fails
CSSet(c) ==
    /\ Resumes(c, "cs_set")
    /\ ~Stalled("cache")
    /\ IF Answers("cache", frame[c].r)
       THEN /\ store' = [store EXCEPT ![frame[c].key] = Dumps(frame[c].value)]
            /\ put' = [put EXCEPT ![frame[c].key] = frame[c].value]
            /\ frame' = [frame EXCEPT ![c].r = None,
                                      ![c].outcome = IF frame[c].op = "cache_set"
                                                     THEN "return" ELSE @]
            /\ log' = [log EXCEPT ![c].rounds = Append(@, "ok")]
            /\ Step(c, CacheSetReturn(c))
       ELSE /\ frame' = [frame EXCEPT ![c].e = "ConnectionError"]
            /\ Step(c, "cs_except")
            /\ UNCHANGED <<log, store, put>>
    /\ UNCHANGED <<config, parse, hung, llm, driver, redis, live, up>>

\* variant: the last error is passed on to the caller
CacheSetGiveUpRaises(e) == [outcome |-> "raise", e |-> e]

\* lines 90-93: the last round failed: log, return
CacheSetGiveUp(e) == [outcome |-> "return", e |-> "none"]

\* lines 79-93: close the client and sleep, or give up and return
CSExcept(c) ==
    /\ Runs(c, "cs_except")
    /\ IF frame[c].catt < frame[c].cmr - 1
       THEN IF redis # None
            THEN /\ frame' = [frame EXCEPT ![c].h = redis]
                 /\ log' = [log EXCEPT ![c].rounds = Append(@, "fail")]
                 /\ Step(c, "cs_closing")
            ELSE /\ log' = [log EXCEPT ![c].rounds = Append(@, "fail"),
                                       ![c].cdelays = Append(@, CacheBackoff(frame[c].catt))]
                 /\ Step(c, "cs_sleep")
                 /\ UNCHANGED frame
       ELSE /\ LET g == CacheSetGiveUp(frame[c].e)
               IN  /\ frame' = [frame EXCEPT ![c].outcome = IF frame[c].op = "cache_set"
                                                                \/ g.outcome = "raise"
                                                             THEN g.outcome ELSE @]
                   /\ Step(c, IF g.outcome = "raise" THEN "done" ELSE CacheSetReturn(c))
            /\ log' = [log EXCEPT ![c].rounds = Append(@, "fail")]
    /\ UNCHANGED <<config, parse, hung, pubmed, llm, driver, redis, live, up>>

\* lines 84-89: close() is over (an error it raised is dropped), redis = None
CSClosing(c) ==
    /\ Resumes(c, "cs_closing")
    /\ live' = [live EXCEPT !["cache"] = @ \ {frame[c].h}]
    /\ redis' = None
    /\ frame' = [frame EXCEPT ![c].h = None]
    /\ log' = [log EXCEPT ![c].cdelays = Append(@, CacheBackoff(frame[c].catt))]
    /\ Step(c, "cs_sleep")
    /\ UNCHANGED <<config, parse, hung, pubmed, llm, driver, up>>

\* line 89 resumes, line 73: next round
CSSleep(c) ==
    /\ Resumes(c, "cs_sleep")
    /\ frame' = [frame EXCEPT ![c].catt = @ + 1]
    /\ Step(c, "cs_try")
    /\ UNCHANGED <<config, parse, hung, pubmed, llm, driver, redis, live, up, log>>

\* The store changes under a key while a GET of that key is pending (a change
\* at any other time is seen by nobody before the next GET).
GetPending(k) == \E c \in Callers : pc[c] = "cg_get" /\ frame[c].key = k

\* ------------------------------------------------------ parse_pubmed_xml

\* lines 281-285
month_map ==
    [Jan |-> "01", Feb |-> "02", Mar |-> "03", Apr |-> "04", May |-> "05", Jun |-> "06",
     Jul |-> "07", Aug |-> "08", Sep |-> "09", Oct |-> "10", Nov |-> "11", Dec |-> "12"]
\* str.isdigit on the texts of a Month element
IsDigitText(t) == t \in {ToString(n) : n \in 0..12} \cup {"0" \o ToString(n) : n \in 1..9}
\* str.zfill(2)
ZFill2(t) == IF Len(t) < 2 THEN "0" \o t ELSE t

\* lines 277, 286-289: the month number; isdigit on None raises
MonthRaises(elem) == elem.year # Absent /\ elem.month = Empty
MonthNumber(elem) ==
    LET month == IF elem.month = Absent THEN "01" ELSE elem.month
    IN  IF month \in DOMAIN month_map THEN month_map[month]
        ELSE IF ~IsDigitText(month) THEN "01"
        ELSE month

\* lines 270-294: the publication date (zfill on None raises, and the
\* handler of line 293 takes the year alone)
PubDate(elem) ==
    IF elem.year = Absent THEN "Unknown date"
    ELSE LET day == IF elem.day = Absent THEN "01" ELSE elem.day
         IN  IF day = Empty THEN elem.year
             ELSE elem.year \o "-" \o ZFill2(MonthNumber(elem)) \o "-" \o ZFill2(day)

\* line 245
Pmid(elem) == IF elem.pmid = Absent THEN "Unknown" ELSE elem.pmid

\* lines 243-318: the record of an article, or the exception met on the way
ExtractArticle(elem) ==
    IF MonthRaises(elem) THEN [raised |-> TRUE, article |-> <<>>]
    ELSE [raised |-> FALSE,
          article |-> [pmid |-> Pmid(elem), title |-> "ArticleTitle",
                       publication_date |-> PubDate(elem)]]

\* lines 324-333, 341-350, 354-362: the minimal records
MinimalRecord(pmid, title) == [pmid |-> pmid, title |-> title, publication_date |-> "Unknown"]

\* variant: an article that cannot be extracted ends the loop
ArticleFailedAborts(elem, articles) == [go_on |-> FALSE, articles |-> articles]

\* lines 321-333: the handler of the inner try; pmid was assigned at line 245
ArticleFailed(elem, articles) ==
    [go_on |-> TRUE,
     articles |-> Append(articles, MinimalRecord(Pmid(elem), "Error parsing article"))]

\* lines 241-333: the loop over the PubmedArticle elements
RECURSIVE ParseArticles(_, _)
ParseArticles(elems, articles) ==
    IF elems = <<>> THEN [raised |-> FALSE, articles |-> articles]
    ELSE LET x == ExtractArticle(Head(elems))
         IN  IF ~x.raised THEN ParseArticles(Tail(elems), Append(articles, x.article))
             ELSE LET f == ArticleFailed(Head(elems), articles)
                  IN  IF f.go_on THEN ParseArticles(Tail(elems), f.articles)
                      ELSE [raised |-> TRUE, articles |-> f.articles]

\* lines 234-362: a text that is not XML (ParseError) or an exception that
\* leaves the loop gives one minimal record per requested id
parse_pubmed_xml(xml, id_list) ==
    IF ~xml.wellformed
    THEN [i \in DOMAIN id_list |-> MinimalRecord(id_list[i], "XML parsing error")]
    ELSE LET r == ParseArticles(xml.elems, <<>>)
         IN  IF r.raised
             THEN [i \in DOMAIN id_list |-> MinimalRecord(id_list[i], "Parsing error")]
             ELSE r.articles

\* parse_pubmed_xml is applied to the document
ParseXml ==
    /\ parsed = NotParsed
    /\ parsed' = [outcome |-> "return", articles |-> parse_pubmed_xml(xml_content, xml_ids)]
    /\ UNCHANGED <<config, pubmed, llm, hung, xml_content, xml_ids,
                   driver, redis, live, up, running, pc, frame, log>>

\* ----------------------------------------------- search_pubmed_articles

\* what the two E-utilities requests can come to
ApiFailures == {"timeout", "client_error", "http_error"}
IdLists == SeqsUpTo(Items, MaxItems)
\* ESEARCH: a failure, a body without "esearchresult", or an ID list
ESearchReplies ==
    [kind : ApiFailures \cup {"bad_format"}, ids : {<<>>}] \cup [kind : {"ok"}, ids : IdLists]
\* EFETCH: a failure, or an XML text that parses or not, with its articles
EFetchReplies ==
    [kind : ApiFailures, wellformed : {FALSE}, pmids : {<<>>}]
    \cup [kind : {"ok"}, wellformed : BOOLEAN, pmids : IdLists]

\* lines 217-225 (and 168, 174, 204): the exception each failure ends as
ApiError(kind) ==
    CASE kind = "timeout" -> "PubMed API request timed out"
      [] kind = "client_error" -> "Network error connecting to PubMed"
      [] kind = "http_error" -> "PubMed API/fetch error: status"
      [] kind = "bad_format" -> "Unexpected response format from PubMed"

\* parse_pubmed_xml(xml_content, ids) as the search sees it, an article
\* being known by its PMID: the articles of the text, or one minimal record
\* per requested id when the text does not parse (lines 338-350)
ParsePubmedXml(xml, ids) == IF xml.wellformed THEN xml.pmids ELSE ids

\* the call cache_get(cache_key) / cache_set(cache_key, value, ttl=3600),
\* max_retries defaulted
EnterCache(f, k, v) == [f EXCEPT !.key = k, !.value = v, !.cmr = max_retries_default, !.catt = 0]

\* a caller invokes search_pubmed_articles(query) (lines 124-135): a blank
\* query is refused, else the cache is asked first
CallSearch(c, query) ==
    /\ CanCall(c)
    /\ log' = [log EXCEPT ![c] = [Log0 EXCEPT !.slot0 = redis,
                                             !.live0 = redis \in live["cache"]]]
    /\ IF Blank(query)
       THEN /\ frame' = [frame EXCEPT ![c] = [Frame0 EXCEPT !.op = "search", !.outcome = "raise",
                                                            !.e = "ValueError"]]
            /\ Step(c, "done")
       ELSE /\ frame' = [frame EXCEPT ![c] = EnterCache([Frame0 EXCEPT !.op = "search"],
                                                       CacheKey(query), NoValue)]
            /\ Step(c, "cg_try")
    /\ UNCHANGED <<config, parse, hung, pubmed, llm, driver, redis, live, up>>

\* how the call of cache_get / cache_set that just returned ended
LastRound(rounds) == IF rounds = <<>> THEN "none" ELSE rounds[Len(rounds)]

\* lines 135-162: a truthy cached value is the result; else the first pacing
\* sleep
SCached(c) ==
    /\ Runs(c, "s_cached")
    /\ IF Truthy(frame[c].value)
       THEN /\ frame' = [frame EXCEPT ![c].outcome = "return"]
            /\ log' = [log EXCEPT ![c].calls = Append(@, LastRound(log[c].rounds)),
                                  ![c].rounds = <<>>, ![c].cdelays = <<>>, ![c].cmds = 0]
            /\ Step(c, "done")
       ELSE /\ frame' = [frame EXCEPT ![c].value = NoValue]
            /\ log' = [log EXCEPT ![c].calls = Append(@, LastRound(log[c].rounds)),
                                  ![c].events = Append(@, "sleep"),
                                  ![c].paces = Append(@, pace_delay),
                                  ![c].rounds = <<>>, ![c].cdelays = <<>>, ![c].cmds = 0]
            /\ Step(c, "s_pace1")
    /\ UNCHANGED <<config, parse, hung, pubmed, llm, driver, redis, live, up>>

\* lines 162-164: the sleep is over, the ESEARCH request is sent
SPace1(c) ==
    /\ Resumes(c, "s_pace1")
    /\ log' = [log EXCEPT ![c].events = Append(@, "esearch")]
    /\ Step(c, "s_esearch")
    /\ UNCHANGED <<config, parse, hung, pubmed, llm, driver, redis, live, up, frame>>

\* variant: the fetch is made whatever the ID list
AfterIdsAlwaysFetch(ids) == "fetch"

\* line 178: an empty ID list ends the search, else the articles are fetched
AfterIds(ids) == IF ids = <<>> THEN "store_empty" ELSE "fetch"

\* lines 164-198: the reply of ESEARCH
SESearch(c) ==
    /\ Resumes(c, "s_esearch")
    /\ \E reply \in ESearchReplies :
        IF reply.kind # "ok"
        THEN /\ frame' = [frame EXCEPT ![c].outcome = "raise", ![c].e = ApiError(reply.kind)]
             /\ log' = [log EXCEPT ![c].es = reply]
             /\ Step(c, "done")
        ELSE IF AfterIds(reply.ids) = "store_empty"
        THEN /\ frame' = [frame EXCEPT ![c] = EnterCache(@, @.key, PyValue("list", <<>>))]
             /\ log' = [log EXCEPT ![c].es = reply,
                                   ![c].events = Append(@, "cache_set"),
                                   ![c].stored = PyValue("list", <<>>)]
             /\ Step(c, "cs_try")
        ELSE /\ log' = [log EXCEPT ![c].es = reply,
                                   ![c].events = Append(@, "sleep"),
                                   ![c].paces = Append(@, pace_delay)]
             /\ UNCHANGED frame
             /\ Step(c, "s_pace2")
    /\ UNCHANGED <<config, parse, hung, pubmed, llm, driver, redis, live, up>>

\* lines 198-200: the sleep is over, the EFETCH request is sent
SPace2(c) ==
    /\ Resumes(c, "s_pace2")
    /\ log' = [log EXCEPT ![c].events = Append(@, "efetch")]
    /\ Step(c, "s_efetch")
    /\ UNCHANGED <<config, parse, hung, pubmed, llm, driver, redis, live, up, frame>>

\* lines 200-212: the reply of EFETCH; the parsed articles go to the cache
SEFetch(c) ==
    /\ Resumes(c, "s_efetch")
    /\ \E reply \in EFetchReplies :
        IF reply.kind # "ok"
        THEN /\ frame' = [frame EXCEPT ![c].outcome = "raise", ![c].e = ApiError(reply.kind)]
             /\ log' = [log EXCEPT ![c].ef = reply]
             /\ Step(c, "done")
        ELSE LET articles == PyValue("list", ParsePubmedXml(reply, log[c].es.ids))
             IN  /\ frame' = [frame EXCEPT ![c] = EnterCache(@, @.key, articles)]
                 /\ log' = [log EXCEPT ![c].ef = reply,
                                       ![c].events = Append(@, "cache_set"),
                                       ![c].stored = articles]
                 /\ Step(c, "cs_try")
    /\ UNCHANGED <<config, parse, hung, pubmed, llm, driver, redis, live, up>>

\* lines 182, 215: cache_set is back, the list is returned
SStored(c) ==
    /\ Runs(c, "s_stored")
    /\ frame' = [frame EXCEPT ![c].outcome = "return"]
    /\ log' = [log EXCEPT ![c].calls = Append(@, LastRound(log[c].rounds)),
                          ![c].rounds = <<>>, ![c].cdelays = <<>>, ![c].cmds = 0]
    /\ Step(c, "done")
    /\ UNCHANGED <<config, parse, hung, pubmed, llm, driver, redis, live, up>>

\* the key's time to live runs out
Expire(k) ==
    /\ running = "none"
    /\ GetPending(k)
    /\ store[k] # NoText
    /\ store' = [store EXCEPT ![k] = NoText]
    /\ put' = [put EXCEPT ![k] = NoValue]
    /\ UNCHANGED <<config, parse, hung, llm, driver, redis, live, up, running, pc, frame, log>>

\* another program writes under the key
ForeignWrite(k) ==
    /\ running = "none"
    /\ GetPending(k)
    /\ store[k] # BadText
    /\ store' = [store EXCEPT ![k] = BadText]
    /\ put' = [put EXCEPT ![k] = NoValue]
    /\ UNCHANGED <<config, parse, hung, llm, driver, redis, live, up, running, pc, frame, log>>

\* ====================================================== utils_llm.py ====

\* ------------------------------------------------- clean_hypothesis_text
\* A text is a sequence of characters.  The characters a text is made of:
\* a letter, a blank, a newline, the markdown marks, a dash that is not the
\* ASCII hyphen, a full stop.
Chars == {"a", " ", "\n", "*", "BACKTICK", "#", "EM DASH", "."}
Texts == SeqsUpTo(Chars, MaxLen)

IsSpace(ch) == ch \in {" ", "\n"}                              \* \s
IsWord(ch) == ch \in {"a"}                                     \* \w
\* line 33: the class of bullets and dashes
IsDash(ch) == ch \in {"BULLET", "MIDDLE DOT", "FIGURE DASH", "EN DASH", "EM DASH",
                      "HORIZONTAL BAR", "HYPHEN"}
\* line 34: the class the two adjacent literals make: double quote, backtick, acute accent
IsQuote(ch) == ch \in {"\"", "BACKTICK", "ACUTE ACCENT"}
\* line 35: every character outside this class is removed
Kept(ch) == IsWord(ch) \/ IsSpace(ch)
            \/ ch \in {".", ",", "!", "?", ";", ":", "(", ")", "-", "\"", "'"}

Drop(s, n) == SubSeq(s, n + 1, Len(s))
\* length of the longest prefix of s made of white space / of d / without d
RECURSIVE RunSpace(_)
RunSpace(s) == IF s # <<>> /\ IsSpace(s[1]) THEN 1 + RunSpace(Tail(s)) ELSE 0
RECURSIVE RunOf(_, _)
RunOf(s, d) == IF s # <<>> /\ s[1] = d THEN 1 + RunOf(Tail(s), d) ELSE 0
RECURSIVE RunNot(_, _)
RunNot(s, d) == IF s # <<>> /\ s[1] # d THEN 1 + RunNot(Tail(s), d) ELSE 0

\* re.sub of n marks d, ([^d]+), n marks d by the group: lines 27, 28, 29
RECURSIVE Unwrap(_, _, _)
Unwrap(s, d, n) ==
    IF s = <<>> THEN <<>>
    ELSE LET body == Drop(s, n)
             len == RunNot(body, d)
             rest == Drop(body, len)
         IN  IF RunOf(s, d) >= n /\ len >= 1 /\ RunOf(rest, d) >= n
             THEN SubSeq(body, 1, len) \o Unwrap(Drop(rest, n), d, n)
             ELSE <<s[1]>> \o Unwrap(Tail(s), d, n)

header_marks == 6
Min(a, b) == IF a < b THEN a ELSE b
\* line 30: re.sub(r'#{1,6}\s*', '', ...)
RECURSIVE RemoveHeaders(_)
RemoveHeaders(s) ==
    IF s = <<>> THEN <<>>
    ELSE IF s[1] = "#"
         THEN LET rest == Drop(s, Min(RunOf(s, "#"), header_marks))
              IN  RemoveHeaders(Drop(rest, RunSpace(rest)))
         ELSE <<s[1]>> \o RemoveHeaders(Tail(s))

\* lines 33, 34: one character for another
NormalizeChar(ch) == IF IsDash(ch) THEN "-" ELSE IF IsQuote(ch) THEN "\"" ELSE ch
Normalize(s) == [i \in DOMAIN s |-> NormalizeChar(s[i])]

\* line 35
RemoveSpecial(s) == SelectSeq(s, Kept)

\* line 38: re.sub(r'\s+', ' ', ...)
RECURSIVE CollapseSpace(_)
CollapseSpace(s) ==
    IF s = <<>> THEN <<>>
    ELSE IF IsSpace(s[1]) THEN <<" ">> \o CollapseSpace(Drop(s, RunSpace(s)))
         ELSE <<s[1]>> \o CollapseSpace(Tail(s))

\* line 39: re.sub(r'\n\s*\n', '\n\n', ...): from a newline to the last
\* newline of the white space that follows it
RECURSIVE SquashNewlines(_)
SquashNewlines(s) ==
    IF s = <<>> THEN <<>>
    ELSE LET ends == {j \in 2..RunSpace(s) : s[j] = "\n"}
         IN  IF s[1] = "\n" /\ ends # {}
             THEN <<"\n", "\n">>
                  \o SquashNewlines(Drop(s, CHOOSE j \in ends : \A k \in ends : k <= j))
             ELSE <<s[1]>> \o SquashNewlines(Tail(s))

\* line 42: str.strip()
RECURSIVE RStrip(_)
RStrip(s) == IF s # <<>> /\ IsSpace(s[Len(s)]) THEN RStrip(SubSeq(s, 1, Len(s) - 1)) ELSE s
Strip(s) == RStrip(Drop(s, RunSpace(s)))

\* variant: the full stop is added to every text
EndSentenceAlways(s) == s \o <<".">>

\* lines 45-46: a full stop ends a text that does not end a sentence
EndSentence(s) ==
    IF s # <<>> /\ s[Len(s)] \notin {".", "!", "?"} THEN s \o <<".">> ELSE s

\* lines 27-48, in the order of the code
clean_hypothesis_text(text) ==
    LET bold == Unwrap(text, "*", 2)
        italic == Unwrap(bold, "*", 1)
        code == Unwrap(italic, "BACKTICK", 1)
        headers == RemoveHeaders(code)
        chars == RemoveSpecial(Normalize(headers))
        spaces == SquashNewlines(CollapseSpace(chars))
    IN  EndSentence(Strip(spaces))

\* clean_hypothesis_text is applied to the text, then to its own result
CleanText ==
    /\ Len(cleaned) = 0
    /\ cleaned' = <<clean_hypothesis_text(hypothesis)>>
    /\ UNCHANGED <<config, parse, hung, pubmed, GROQ_API_KEY, GROQ_API_URL, hypothesis,
                   driver, redis, live, up, running, pc, frame, log>>

CleanAgain ==
    /\ Len(cleaned) = 1
    /\ cleaned' = Append(cleaned, clean_hypothesis_text(cleaned[1]))
    /\ UNCHANGED <<config, parse, hung, pubmed, GROQ_API_KEY, GROQ_API_URL, hypothesis,
                   driver, redis, live, up, running, pc, frame, log>>

\* --------------------------------------------------- generate_hypothesis

\* statuses other than 200 the completion endpoint answers with
ErrorStatuses == {500, 503}
\* contents of a completion: none, a blank, a text with markdown
Completions == {<<>>, <<" ">>, <<"*", "a", "*">>}
\* What comes back for a POST: no response (time-out, network error), a status
\* other than 200, or 200 with a body that can be read or not and its content.
LlmReplies ==
    [fault : {"TimeoutError", "ClientError"}, status : {0}, readable : {FALSE}, content : {<<>>}]
    \cup [fault : {"none"}, status : ErrorStatuses, readable : {FALSE}, content : {<<>>}]
    \cup [fault : {"none"}, status : {200}, readable : {FALSE}, content : {<<>>}]
    \cup [fault : {"none"}, status : {200}, readable : {TRUE}, content : Completions]

\* lines 101, 115, 129: the attempt did not produce a text
AttemptFailed(reply) ==
    reply.fault # "none" \/ reply.status # 200 \/ ~reply.readable \/ reply.content = <<>>

\* the exception the attempt ends with (lines 108, 121, 129)
LlmError(reply) ==
    CASE reply.fault # "none" -> reply.fault
      [] reply.status # 200 -> "Groq AI API error: " \o ToString(reply.status)
      [] ~reply.readable -> "error reading the completion"
      [] OTHER -> "Failed to generate hypothesis - empty response"

\* variant: the key alone is required
LlmConfiguredKeyOnly == GROQ_API_KEY

\* line 55
LlmConfigured == GROQ_API_KEY /\ GROQ_API_URL

\* variant: the same wait after every attempt
LlmBackoffFlat(attempt) == llm_delay

\* lines 105, 118, 133: 1.0 * (attempt + 1)
LlmBackoff(attempt) == llm_delay * (attempt + 1)

\* variant: the content is returned as it came
CompletionRaw(content) == content

\* lines 124-127: the text returned for a content
Completion(content) == clean_hypothesis_text(content)

\* variant: an empty text is returned when the attempts are used up
ExhaustedReturnsEmpty(e) == [outcome |-> "return", e |-> "none"]

\* lines 108, 121, 135-136: the error of the last attempt is raised
Exhausted(e) == [outcome |-> "raise", e |-> e]

\* a caller invokes generate_hypothesis(historical_node, modern_node,
\* max_retries = mr): lines 55-56, then the prompt is built
CallGenerate(c, mr) ==
    /\ CanCall(c)
    /\ log' = [log EXCEPT ![c] = Log0]
    /\ IF ~LlmConfigured
       THEN /\ frame' = [frame EXCEPT ![c] = [Frame0 EXCEPT !.op = "generate", !.mr = mr,
                                                            !.outcome = "raise",
                                                            !.e = "ValueError"]]
            /\ Step(c, "done")
       ELSE /\ frame' = [frame EXCEPT ![c] = [Frame0 EXCEPT !.op = "generate", !.mr = mr]]
            /\ Step(c, "gh_try")
    /\ UNCHANGED <<config, parse, hung, pubmed, llm, driver, redis, live, up>>

\* lines 79-100: the request is built and posted
GHTry(c) ==
    /\ Runs(c, "gh_try")
    /\ log' = [log EXCEPT ![c].posts = @ + 1]
    /\ Step(c, "gh_post")
    /\ UNCHANGED <<config, parse, hung, pubmed, llm, driver, redis, live, up, frame>>

\* lines 100-127: what comes back for the POST
GHPost(c) ==
    /\ Resumes(c, "gh_post")
    /\ \E reply \in LlmReplies :
        /\ IF ~AttemptFailed(reply)
           THEN /\ frame' = [frame EXCEPT ![c].outcome = "return",
                                          ![c].text = Completion(reply.content)]
                /\ log' = [log EXCEPT ![c].replies = Append(@, reply)]
                /\ Step(c, Done(c))
           ELSE IF reply.fault = "none" /\ (reply.status # 200 \/ reply.readable)
                   /\ frame[c].attempt < frame[c].mr - 1
           THEN \* lines 104-106, 117-119: sleep and continue
                /\ log' = [log EXCEPT ![c].replies = Append(@, reply),
                                      ![c].waits = Append(@, LlmBackoff(frame[c].attempt))]
                /\ UNCHANGED frame
                /\ Step(c, "gh_sleep")
           ELSE \* an exception: raised by the request, by reading the body,
                \* or by lines 108, 121
                /\ frame' = [frame EXCEPT ![c].e = LlmError(reply)]
                /\ log' = [log EXCEPT ![c].replies = Append(@, reply)]
                /\ Step(c, "gh_except")
    /\ UNCHANGED <<config, parse, hung, pubmed, llm, driver, redis, live, up>>

\* lines 129-136: sleep before the next attempt, or raise
GHExcept(c) ==
    /\ Runs(c, "gh_except")
    /\ IF frame[c].attempt < frame[c].mr - 1
       THEN /\ log' = [log EXCEPT ![c].waits = Append(@, LlmBackoff(frame[c].attempt))]
            /\ UNCHANGED frame
            /\ Step(c, "gh_sleep")
       ELSE /\ LET x == Exhausted(frame[c].e)
               IN  frame' = [frame EXCEPT ![c].outcome = x.outcome, ![c].e = x.e]
            /\ UNCHANGED log
            /\ Step(c, Done(c))
    /\ UNCHANGED <<config, parse, hung, pubmed, llm, driver, redis, live, up>>

\* the sleep is over, line 79: next attempt
GHSleep(c) ==
    /\ Resumes(c, "gh_sleep")
    /\ frame' = [frame EXCEPT ![c].attempt = @ + 1]
    /\ Step(c, "gh_try")
    /\ UNCHANGED <<config, parse, hung, pubmed, llm, driver, redis, live, up, log>>

\* ============================================================ main.py ====

\* the payloads of ingest_historical: the fields they carry
Payloads == SUBSET {"text", "source_id"}

\* what reaches the except clause of a route handler
HTTPException(status) == [type |-> "HTTPException", status |-> status]
OtherException == [type |-> "Exception", status |-> 0]

\* ingest_historical, lines 161-163: except Exception answers 500
IngestErrorStatus(exc) == 500

\* generate_hypothesis_endpoint, lines 196-200: an HTTPException is raised
\* again as it is, every other exception answers 500
HypothesisErrorStatus(exc) == IF exc.type = "HTTPException" THEN exc.status ELSE 500

\* the handler awaits the next operation
StartOp(f, opname) ==
    [Frame0 EXCEPT !.op = opname, !.cyc = 1, !.mr = max_retries_default,
                   !.ep = f.ep, !.stage = f.stage + 1,
                   !.payload = f.payload, !.found = f.found, !.text = f.text]
StartLog(l, opname) == [Log0 EXCEPT !.slot0 = driver, !.ops = Append(l.ops, opname)]

\* the handler answers
Respond(c, status) ==
    /\ frame' = [frame EXCEPT ![c].status = status]
    /\ Step(c, "done")

\* POST /api/v1/graph/ingest-historical, lines 155-159: the two fields are
\* required, then create_historical_observation
CallIngestHistorical(c, payload) ==
    /\ CanCall(c)
    /\ IF "text" \notin payload \/ "source_id" \notin payload
       THEN /\ frame' = [frame EXCEPT ![c] =
                            [Frame0 EXCEPT !.ep = "ingest_historical", !.payload = payload,
                                           !.outcome = "raise", !.e = "HTTPException",
                                           !.status = IngestErrorStatus(HTTPException(400))]]
            /\ log' = [log EXCEPT ![c] = Log0]
            /\ Step(c, "done")
       ELSE /\ frame' = [frame EXCEPT ![c] =
                            StartOp([Frame0 EXCEPT !.ep = "ingest_historical",
                                                   !.payload = payload], "create")]
            /\ log' = [log EXCEPT ![c] = StartLog(Log0, "create")]
            /\ Step(c, "x_try")
    /\ UNCHANGED <<config, parse, hung, pubmed, llm, driver, redis, live, up>>

\* lines 159-163: the id is returned, or the error is answered
IHCreated(c) ==
    /\ Runs(c, "ih_created")
    /\ Respond(c, IF frame[c].outcome = "return" THEN 200
                  ELSE IngestErrorStatus(OtherException))
    /\ UNCHANGED <<config, parse, hung, pubmed, llm, driver, redis, live, up, log>>

\* POST /api/v1/hypothesis, line 178: get_node_by_id(request.hist_id)
CallHypothesisEndpoint(c) ==
    /\ CanCall(c)
    /\ frame' = [frame EXCEPT ![c] = StartOp([Frame0 EXCEPT !.ep = "hypothesis"], "get_node")]
    /\ log' = [log EXCEPT ![c] = StartLog(Log0, "get_node")]
    /\ Step(c, "x_try")
    /\ UNCHANGED <<config, parse, hung, pubmed, llm, driver, redis, live, up>>

\* get_node_by_id returned a node (a node has properties, so its dict is true)
NodeFound(c) == log[c].replied /\ log[c].reply # <<>>

\* lines 178-179: the historical node is back, get_node_by_id(request.modern_id)
HEHistorical(c) ==
    /\ Runs(c, "he_historical")
    /\ IF frame[c].outcome = "raise"
       THEN /\ Respond(c, HypothesisErrorStatus(OtherException))
            /\ UNCHANGED log
       ELSE /\ frame' = [frame EXCEPT ![c] =
                            StartOp([@ EXCEPT !.found = Append(@, NodeFound(c))], "get_node")]
            /\ log' = [log EXCEPT ![c] = StartLog(@, "get_node")]
            /\ Step(c, "x_try")
    /\ UNCHANGED <<config, parse, hung, pubmed, llm, driver, redis, live, up>>

\* lines 179-185: both nodes are required (404), then generate_hypothesis,
\* which first looks for its configuration (utils_llm.py lines 55-56)
HEModern(c) ==
    /\ Runs(c, "he_modern")
    /\ IF frame[c].outcome = "raise"
       THEN /\ Respond(c, HypothesisErrorStatus(OtherException))
            /\ UNCHANGED log
       ELSE IF ~frame[c].found[1] \/ ~NodeFound(c)
       THEN /\ frame' = [frame EXCEPT ![c].found = Append(@, NodeFound(c)),
                                      ![c].outcome = "raise", ![c].e = "HTTPException",
                                      ![c].status = HypothesisErrorStatus(HTTPException(404))]
            /\ Step(c, "done")
            /\ UNCHANGED log
       ELSE IF ~LlmConfigured
       THEN /\ frame' = [frame EXCEPT ![c] =
                            [StartOp([@ EXCEPT !.found = Append(@, NodeFound(c))], "generate")
                                EXCEPT !.outcome = "raise", !.e = "ValueError",
                                       !.status = HypothesisErrorStatus(OtherException)]]
            /\ log' = [log EXCEPT ![c] = StartLog(@, "generate")]
            /\ Step(c, "done")
       ELSE /\ frame' = [frame EXCEPT ![c] =
                            StartOp([@ EXCEPT !.found = Append(@, NodeFound(c))], "generate")]
            /\ log' = [log EXCEPT ![c] = StartLog(@, "generate")]
            /\ Step(c, "gh_try")
    /\ UNCHANGED <<config, parse, hung, pubmed, llm, driver, redis, live, up>>

\* variant: the relationship is written whether generate_hypothesis returned
\* or raised
HEGeneratedAlwaysConnects(c) ==
    /\ Runs(c, "he_generated")
    /\ frame' = [frame EXCEPT ![c] = StartOp(@, "create")]
    /\ log' = [log EXCEPT ![c] = StartLog(@, "create")]
    /\ Step(c, "x_try")
    /\ UNCHANGED <<config, parse, hung, pubmed, llm, driver, redis, live, up>>

\* lines 185-189: the hypothesis is back, create_hypothesis_connection
HEGenerated(c) ==
    /\ Runs(c, "he_generated")
    /\ IF frame[c].outcome = "raise"
       THEN /\ Respond(c, HypothesisErrorStatus(OtherException))
            /\ UNCHANGED log
       ELSE /\ frame' = [frame EXCEPT ![c] = StartOp(@, "create")]
            /\ log' = [log EXCEPT ![c] = StartLog(@, "create")]
            /\ Step(c, "x_try")
    /\ UNCHANGED <<config, parse, hung, pubmed, llm, driver, redis, live, up>>

\* lines 189-200: the relationship id is back and the hypothesis is answered
HEConnected(c) ==
    /\ Runs(c, "he_connected")
    /\ Respond(c, IF frame[c].outcome = "return" THEN 200
                  ELSE HypothesisErrorStatus(OtherException))
    /\ UNCHANGED <<config, parse, hung, pubmed, llm, driver, redis, live, up, log>>

\* ======================================================= specifications ==

GraphSteps(c) ==
    \/ GDEnter(c) \/ GDTry(c) \/ GDProbe(c) \/ GDExcept(c) \/ GDBackoff(c) \/ GDSleep(c)
    \/ CDEnter(c) \/ CDClosing(c)
    \/ XTry(c) \/ XGotDriver(c) \/ XRun(c) \/ XCollect(c) \/ XExcept(c)
    \/ XBackoff(c) \/ XSleep(c) \/ CRRecords(c) \/ GNRecords(c)

CacheSteps(c) ==
    \/ GRTry(c) \/ GRPing(c) \/ GRExcept(c) \/ GRClosing(c) \/ GRBackoff(c) \/ GRSleep(c)

Calls(c) ==
    \/ \E mr \in RetryArgs : CallGetDriver(c, mr)
    \/ \E mr \in RetryArgs : CallGetRedis(c, mr)
    \/ CallCloseDriver(c)
    \/ CallExecute(c)
    \/ CallCreate(c)
    \/ CallGetNode(c)

Env == \E k \in Kinds : EnvToggle(k)

\* one request in flight at a time
Next ==
    \/ Env
    \/ Calls("a")
    \/ GraphSteps("a")
    \/ CacheSteps("a")

Spec == Init /\ [][Next]_vars

\* two requests in flight
\* the calls the application itself makes: max_retries is left to its default
AcquireCalls(c) ==
    \/ CallGetDriver(c, max_retries_default)
    \/ CallGetRedis(c, max_retries_default)
    \/ CallCloseDriver(c)

AcquireSteps(c) ==
    \/ GDEnter(c) \/ GDTry(c) \/ GDProbe(c) \/ GDExcept(c) \/ GDBackoff(c) \/ GDSleep(c)
    \/ CDEnter(c) \/ CDClosing(c)
    \/ CacheSteps(c)

NextConc ==
    \/ Env
    \/ \E c \in Callers : AcquireCalls(c)
    \/ \E c \in Callers : AcquireSteps(c)

SpecConc == Init /\ [][NextConc]_vars

\* the cache and the search, one request in flight
CacheOpSteps(c) ==
    \/ CGTry(c) \/ CGSend(c) \/ CGGet(c) \/ CGExcept(c) \/ CGClosing(c) \/ CGSleep(c)
    \/ CSTry(c) \/ CSSend(c) \/ CSSet(c) \/ CSExcept(c) \/ CSClosing(c) \/ CSSleep(c)

CacheCalls(c) ==
    \/ \E k \in Keys, mr \in RetryArgs : CallCacheGet(c, k, mr)
    \/ \E k \in Keys, v \in Values, mr \in RetryArgs : CallCacheSet(c, k, v, mr)
    \/ \E q \in Queries : CallSearch(c, q)

SearchSteps(c) ==
    \/ SCached(c) \/ SPace1(c) \/ SESearch(c) \/ SPace2(c) \/ SEFetch(c) \/ SStored(c)

EnvStore == \E k \in Keys : Expire(k) \/ ForeignWrite(k)

NextPubmed ==
    \/ EnvToggle("cache")
    \/ EnvStore
    \/ CacheCalls("a")
    \/ CacheSteps("a")
    \/ CacheOpSteps("a")
    \/ SearchSteps("a")

InitPubmed == Init /\ NEO4J_URI /\ NEO4J_PASSWORD

SpecPubmed == InitPubmed /\ [][NextPubmed]_vars

\* clean_hypothesis_text on every text of at most MaxLen characters
InitClean ==
    /\ NEO4J_URI = TRUE
    /\ NEO4J_PASSWORD = TRUE
    /\ driver = None
    /\ redis = None
    /\ live = [k \in Kinds |-> {}]
    /\ up = [k \in Kinds |-> TRUE]
    /\ running = "none"
    /\ pc = [c \in Callers |-> "idle"]
    /\ frame = [c \in Callers |-> Frame0]
    /\ log = [c \in Callers |-> Log0]
    /\ store = [k \in Keys |-> NoText]
    /\ put = [k \in Keys |-> NoValue]
    /\ GROQ_API_KEY = TRUE
    /\ GROQ_API_URL = TRUE
    /\ hypothesis \in Texts
    /\ cleaned = <<>>
    /\ xml_content = NoDocument
    /\ xml_ids = <<>>
    /\ parsed = NotParsed
    /\ hung = {}

NextClean == CleanText \/ CleanAgain

SpecClean == InitClean /\ [][NextClean]_vars

\* parse_pubmed_xml on every document of at most MaxArticles articles
InitParse ==
    /\ NEO4J_URI = TRUE
    /\ NEO4J_PASSWORD = TRUE
    /\ driver = None
    /\ redis = None
    /\ live = [k \in Kinds |-> {}]
    /\ up = [k \in Kinds |-> TRUE]
    /\ running = "none"
    /\ pc = [c \in Callers |-> "idle"]
    /\ frame = [c \in Callers |-> Frame0]
    /\ log = [c \in Callers |-> Log0]
    /\ store = [k \in Keys |-> NoText]
    /\ put = [k \in Keys |-> NoValue]
    /\ GROQ_API_KEY = TRUE
    /\ GROQ_API_URL = TRUE
    /\ hypothesis = <<>>
    /\ cleaned = <<>>
    /\ xml_content \in Documents
    /\ xml_ids \in IdTexts
    /\ parsed = NotParsed
    /\ hung = {}

NextParse == ParseXml

SpecParse == InitParse /\ [][NextParse]_vars

\* the completion client, one request in flight
InitLLM ==
    /\ NEO4J_URI = TRUE
    /\ NEO4J_PASSWORD = TRUE
    /\ driver = None
    /\ redis = None
    /\ live = [k \in Kinds |-> {}]
    /\ up = [k \in Kinds |-> TRUE]
    /\ running = "none"
    /\ pc = [c \in Callers |-> "idle"]
    /\ frame = [c \in Callers |-> Frame0]
    /\ log = [c \in Callers |-> Log0]
    /\ store = [k \in Keys |-> NoText]
    /\ put = [k \in Keys |-> NoValue]
    /\ GROQ_API_KEY \in BOOLEAN
    /\ GROQ_API_URL \in BOOLEAN
    /\ hypothesis = <<>>
    /\ cleaned = <<>>
    /\ xml_content = NoDocument
    /\ xml_ids = <<>>
    /\ parsed = NotParsed
    /\ hung = {}

LLMSteps(c) == GHTry(c) \/ GHPost(c) \/ GHExcept(c) \/ GHSleep(c)

NextLLM ==
    \/ \E mr \in RetryArgs : CallGenerate("a", mr)
    \/ LLMSteps("a")

SpecLLM == InitLLM /\ [][NextLLM]_vars

\* the route handlers, one request in flight
EndpointCalls(c) ==
    \/ \E payload \in Payloads : CallIngestHistorical(c, payload)
    \/ CallHypothesisEndpoint(c)

EndpointSteps(c) ==
    \/ IHCreated(c) \/ HEHistorical(c) \/ HEModern(c) \/ HEGenerated(c) \/ HEConnected(c)

NextApi ==
    \/ EnvToggle("graph")
    \/ EndpointCalls("a")
    \/ EndpointSteps("a")
    \/ GraphSteps("a")
    \/ LLMSteps("a")

SpecApi == Init /\ [][NextApi]_vars

\* every operation under a service that may stop answering for good.  The
\* event loop resumes a coroutine once its await is over: a sleep ends, an
\* HTTP request is answered or times out, a server that is not stalled
\* answers or the connection fails.
ProgramSteps(c) ==
    \/ GraphSteps(c) \/ CacheSteps(c) \/ CacheOpSteps(c) \/ SearchSteps(c) \/ LLMSteps(c)

OperationCalls(c) ==
    \/ CallGetDriver(c, max_retries_default)
    \/ CallExecute(c)
    \/ CallCreate(c)
    \/ CallGetNode(c)
    \/ CallGetRedis(c, max_retries_default)
    \/ \E k \in Keys : CallCacheGet(c, k, max_retries_default)
    \/ \E k \in Keys : CallCacheSet(c, k, PyNone, max_retries_default)
    \/ \E q \in Queries : CallSearch(c, q)
    \/ CallGenerate(c, max_retries_default)

NextTimeout ==
    \/ \E k \in Kinds : EnvToggle(k) \/ EnvHang(k)
    \/ OperationCalls("a")
    \/ ProgramSteps("a")

SpecTimeout == Init /\ [][NextTimeout]_vars /\ WF_vars(ProgramSteps("a"))

\* ================================================================ claims ==

ConfigOK == NEO4J_URI /\ NEO4J_PASSWORD
AcquireOps == {"get_driver", "get_redis"}
ExecuteOps == {"execute", "create"}
Finished(c, ops) == pc[c] = "done" /\ frame[c].op \in ops
Failures(s) == {i \in DOMAIN s : s[i] # "ok"}
AllFail(s) == \A i \in DOMAIN s : s[i] # "ok"
AllOk(s) == \A i \in DOMAIN s : s[i] = "ok"
StrictlyIncreasing(s) == \A i \in DOMAIN s : \A j \in DOMAIN s : i < j => s[i] < s[j]
\* the acquire handed a handle to its caller
Acquired(c) == frame[c].outcome = "return" /\ frame[c].got # None
\* number of failed attempts before the first successful one
RECURSIVE LeadingFailures(_)
LeadingFailures(s) ==
    IF s = <<>> \/ Head(s) = "ok" THEN 0 ELSE 1 + LeadingFailures(Tail(s))

TypeOK ==
    /\ driver \in Nat
    /\ redis \in Nat
    /\ \A k \in Kinds : live[k] \subseteq Nat \ {None}
    /\ running \in Callers \cup {"none"}

\* C1: an acquire that finds a healthy handle in the slot (the handle is live
\* and no probe of the call failed) returns that handle and never calls the
\* connect primitive.
C1_ReuseHealthyHandle ==
    \A c \in Callers :
        (/\ Finished(c, AcquireOps)
         /\ log[c].slot0 # None
         /\ log[c].live0
         /\ AllOk(log[c].attempts)
         /\ up[KindOf(frame[c].op)])
        => /\ frame[c].got = log[c].slot0
           /\ log[c].connects = 0

\* C2: every live handle is the one its slot refers to, so at most one handle
\* per service kind is live and no slot drops a handle that was not closed.
C2_AtMostOneLiveHandle ==
    \A k \in Kinds : live[k] \subseteq {Slot(k)}

\* C3: callers that acquire the same service kind together, starting before
\* any handle was established and meeting no failure, call the connect
\* primitive at most once in total.
C3_SingleEstablishment ==
    \A c \in Callers : \A d \in Callers \ {c} :
        (/\ frame[c].op \in AcquireOps
         /\ frame[d].op = frame[c].op
         /\ log[c].slot0 = None
         /\ log[d].slot0 \in {None} \cup log[c].made
         /\ AllOk(log[c].attempts) /\ AllOk(log[d].attempts)
         /\ up[KindOf(frame[c].op)])
        => log[c].connects + log[d].connects <= 1

\* C4: while a caller has a probe or a query pending on a handle, the slot
\* still refers to that handle, the handle is not closed and no other caller
\* is closing it.
InFlight == {"gd_probe", "gr_ping", "x_run", "x_collect"}
Closing == {"cd_closing", "gr_closing"}
C4_NoMutationDuringUse ==
    \A c \in Callers :
        pc[c] \in InFlight =>
            LET k == KindOf(frame[c].op)
                h == frame[c].h
            IN  /\ Slot(k) = h
                /\ h \in live[k]
                /\ \A d \in Callers \ {c} :
                       ~(pc[d] \in Closing /\ KindOf(frame[d].op) = k /\ frame[d].h = h)

\* C5: with the configuration present, an acquire all of whose attempts fail
\* has called the connect primitive exactly max_retries times and raises.
C5_ExhaustedRaises ==
    \A c \in Callers :
        (/\ Finished(c, AcquireOps)
         /\ ConfigOK
         /\ log[c].slot0 = None
         /\ AllFail(log[c].attempts))
        => /\ log[c].connects = frame[c].mr
           /\ Len(log[c].attempts) = frame[c].mr
           /\ frame[c].outcome = "raise"

\* the attempt after the leading failures succeeded or, when the acquire made
\* none, would succeed because the service is up
NextAttemptSucceeds(c) ==
    LET n == LeadingFailures(log[c].attempts)
    IN  IF Len(log[c].attempts) > n THEN log[c].attempts[n + 1] = "ok"
        ELSE up[KindOf(frame[c].op)]

RetryOutcome(c) ==
    /\ Acquired(c)
    /\ Len(log[c].attempts) = LeadingFailures(log[c].attempts) + 1
    /\ Len(log[c].delays) = LeadingFailures(log[c].attempts)
    /\ StrictlyIncreasing(log[c].delays)

\* C6 as stated: for every N <= max_retries, N failed attempts followed by one
\* that would succeed end in a handle after N+1 attempts with strictly
\* increasing delays.
C6_RetryUpToMax ==
    \A c \in Callers :
        (/\ Finished(c, AcquireOps)
         /\ ConfigOK
         /\ LeadingFailures(log[c].attempts) <= frame[c].mr
         /\ NextAttemptSucceeds(c))
        => RetryOutcome(c)

\* C6 amended: the same for every N < max_retries, an attempt being one round
\* of the retry loop.
C6_RetryBelowMax ==
    \A c \in Callers :
        (/\ Finished(c, AcquireOps)
         /\ ConfigOK
         /\ LeadingFailures(log[c].attempts) < frame[c].mr
         /\ NextAttemptSucceeds(c))
        => RetryOutcome(c)

C6_Witness ==
    \E c \in Callers :
        /\ Finished(c, AcquireOps)
        /\ Acquired(c)
        /\ LeadingFailures(log[c].attempts) = frame[c].mr - 1
        /\ Len(log[c].delays) >= 2

\* C7: after an acquire has used up all its attempts, the slot is empty and
\* none of the handles the call built is live.
C7_ExhaustedLeavesNothing ==
    \A c \in Callers :
        (/\ Finished(c, AcquireOps)
         /\ AllFail(log[c].attempts)
         /\ Len(log[c].attempts) = frame[c].mr)
        => /\ Slot(KindOf(frame[c].op)) = None
           /\ log[c].made \cap live[KindOf(frame[c].op)] = {}
           /\ ~Acquired(c)

C7_Witness ==
    \E c \in Callers :
        /\ Finished(c, AcquireOps)
        /\ AllFail(log[c].attempts)
        /\ Len(log[c].attempts) = frame[c].mr
        /\ frame[c].mr >= 2
        /\ log[c].connects = frame[c].mr

\* C8: without NEO4J_URI or NEO4J_PASSWORD, get_driver_with_retry raises the
\* configuration error at once: no connect, no second attempt, no backoff.
C8_MissingConfigFailsFast ==
    \A c \in Callers :
        (Finished(c, {"get_driver"}) /\ ~ConfigOK)
        => /\ frame[c].outcome = "raise"
           /\ frame[c].e = "ValueError"
           /\ log[c].connects = 0
           /\ Len(log[c].attempts) <= 1
           /\ log[c].delays = <<>>

\* C9: execute_query_with_retry runs at most max_retries cycles, starts each
\* with an acquisition, and returns the full record list of the first cycle
\* that succeeds, which is its last.
C9_CyclesAndResult ==
    \A c \in Callers :
        frame[c].op \in ExecuteOps =>
            /\ frame[c].cyc <= max_retries_default
            /\ Len(log[c].cycles) <= max_retries_default
            /\ log[c].acquires <= max_retries_default
            /\ pc[c] \in {"x_run", "x_collect"} =>
                   /\ log[c].acquires = frame[c].cyc
                   /\ Len(log[c].cycles) = frame[c].cyc - 1
            /\ (Finished(c, {"execute"}) /\ frame[c].outcome = "return") =>
                   /\ log[c].replied
                   /\ frame[c].ret = log[c].reply
                   /\ Failures(log[c].cycles) = 1..(Len(log[c].cycles) - 1)
                   /\ log[c].acquires = Len(log[c].cycles)

C9_Witness ==
    \E c \in Callers :
        /\ Finished(c, {"execute"})
        /\ frame[c].outcome = "return"
        /\ Len(log[c].cycles) = max_retries_default
        /\ Len(frame[c].ret) >= 2

\* C10: when every cycle fails, execute_query_with_retry raises the cause of
\* the last cycle; and whatever a finished graph operation returns is what the
\* store sent: its record list, or for a creation the id in the first record.
C10_NoSilentDefault ==
    \A c \in Callers :
        Finished(c, ExecuteOps) =>
            /\ AllFail(log[c].cycles) =>
                   /\ frame[c].outcome = "raise"
                   /\ Len(log[c].cycles) = max_retries_default
                   /\ frame[c].e = log[c].cycles[Len(log[c].cycles)]
            /\ frame[c].outcome = "return" =>
                   /\ log[c].replied
                   /\ frame[c].op = "execute" => frame[c].ret = log[c].reply
                   /\ frame[c].op = "create" =>
                          log[c].reply # <<>> /\ frame[c].ret = Head(log[c].reply)

C10_Witness ==
    \E c \in Callers :
        /\ Finished(c, {"create"})
        /\ AllFail(log[c].cycles)
        /\ frame[c].outcome = "raise"
        /\ {log[c].cycles[i] : i \in DOMAIN log[c].cycles} = {"ConnectionError", "QueryError", "StreamError"}

\* C11: a query that ran and yielded no record ends the operation in that
\* cycle: the empty list is returned (None by get_node_by_id), no backoff
\* follows the cycle, a first cycle is the only one, and the driver stays in
\* the slot, open.
QueryOps == {"execute", "get_node"}
C11_EmptyIsNotFailure ==
    \A c \in Callers :
        (Finished(c, QueryOps) /\ log[c].replied /\ log[c].reply = <<>>)
        => /\ frame[c].outcome = "return"
           /\ frame[c].op = "execute" => frame[c].ret = <<>>
           /\ frame[c].op = "get_node" => frame[c].ret = None
           /\ log[c].cycles[Len(log[c].cycles)] = "ok"
           /\ Len(log[c].xdelays) = Len(log[c].cycles) - 1
           /\ Failures(log[c].cycles) = {} => Len(log[c].cycles) = 1
           /\ driver # None /\ driver \in live["graph"]

C11_Witness ==
    \E c \in Callers :
        /\ Finished(c, {"get_node"})
        /\ log[c].replied /\ log[c].reply = <<>>
        /\ log[c].cycles = <<"ok">>
        /\ frame[c].ret = None

\* C12: whatever fails (the connection, the acquire, json.dumps, json.loads),
\* cache_get and cache_set return to their caller - cache_get with None when
\* its last round failed - after at most max_retries rounds and at most
\* max_retries GET / SET commands.
CacheOps == {"cache_get", "cache_set"}
C12_CacheNeverRaises ==
    \A c \in Callers :
        Finished(c, CacheOps)
        => /\ frame[c].outcome = "return"
           /\ Len(log[c].rounds) <= frame[c].cmr
           /\ log[c].cmds <= frame[c].cmr
           /\ AllFail(log[c].rounds)
              => /\ Len(log[c].rounds) = frame[c].cmr
                 /\ frame[c].op = "cache_get" => frame[c].value = PyNone

C12_Witness ==
    \E c \in Callers :
        /\ Finished(c, {"cache_get"})
        /\ frame[c].cmr = max_retries_default
        /\ log[c].rounds = <<"fail", "fail", "fail">>
        /\ log[c].cmds = max_retries_default
        /\ frame[c].e = "JSONDecodeError"

\* C13: a cache_get whose GET was answered, made after a cache_set wrote the
\* key (no expiry and no other write since), returns the value that was set
\* as json.loads(json.dumps(value)) gives it back.
C13_SetThenGet ==
    \A c \in Callers :
        (/\ Finished(c, {"cache_get"})
         /\ log[c].rounds # <<>>
         /\ log[c].rounds[Len(log[c].rounds)] = "ok"
         /\ put[frame[c].key] # NoValue)
        => frame[c].value = Loads(Dumps(put[frame[c].key]))

C13_Witness ==
    \E c \in Callers :
        /\ Finished(c, {"cache_get"})
        /\ log[c].rounds = <<"ok">>
        /\ put[frame[c].key] = PyValue("tuple", <<1>>)
        /\ frame[c].value = PyValue("list", <<1>>)

\* C14: a search that did not get its result from the cache ends as the
\* replies of the search API alone decide: the same error or the same list,
\* whether the cache answered (and held nothing) or failed on every call.
SearchResult(es, ef) ==
    IF es.kind # "ok" THEN [outcome |-> "raise", e |-> ApiError(es.kind), value |-> NoValue]
    ELSE IF es.ids = <<>> THEN [outcome |-> "return", e |-> "none", value |-> PyValue("list", <<>>)]
    ELSE IF ef.kind # "ok" THEN [outcome |-> "raise", e |-> ApiError(ef.kind), value |-> NoValue]
    ELSE [outcome |-> "return", e |-> "none",
          value |-> PyValue("list", IF ef.wellformed THEN ef.pmids ELSE es.ids)]

CacheMiss(c) == Finished(c, {"search"}) /\ log[c].events # <<>>

C14_CacheOutageChangesNothing ==
    \A c \in Callers :
        CacheMiss(c)
        => LET expected == SearchResult(log[c].es, log[c].ef)
           IN  /\ frame[c].outcome = expected.outcome
               /\ frame[c].value = expected.value
               /\ expected.outcome = "raise" => frame[c].e = expected.e

C14_Witness ==
    \E c \in Callers :
        /\ CacheMiss(c)
        /\ log[c].calls = <<"fail", "fail">>
        /\ ~up["cache"]
        /\ store[frame[c].key] = NoText
        /\ frame[c].outcome = "return"
        /\ frame[c].value = PyValue("list", <<1>>)

\* C15: after a cache miss the search sleeps once, sends one ESEARCH, and
\* only for a non-empty ID list sleeps once more and sends one EFETCH; with
\* an empty ID list it sends no EFETCH, hands [] to cache_set under the
\* search key and returns [].
RECURSIVE IsPrefix(_, _)
IsPrefix(s, t) ==
    \/ s = <<>>
    \/ t # <<>> /\ Head(s) = Head(t) /\ IsPrefix(Tail(s), Tail(t))

C15_TwoPhaseOrder ==
    \A c \in Callers :
        frame[c].op = "search"
        => /\ \/ IsPrefix(log[c].events, <<"sleep", "esearch", "sleep", "efetch", "cache_set">>)
              \/ log[c].events = <<"sleep", "esearch", "cache_set">>
           /\ \A i \in DOMAIN log[c].paces : log[c].paces[i] = pace_delay
           /\ Len(log[c].events) >= 3 /\ log[c].events[3] = "sleep" => log[c].es.ids # <<>>
           /\ (CacheMiss(c) /\ log[c].es.kind = "ok" /\ log[c].es.ids # <<>>)
              => Len(log[c].events) >= 4
           /\ (CacheMiss(c) /\ log[c].es.kind = "ok" /\ log[c].es.ids = <<>>)
              => /\ log[c].events = <<"sleep", "esearch", "cache_set">>
                 /\ log[c].paces = <<pace_delay>>
                 /\ log[c].stored = PyValue("list", <<>>)
                 /\ frame[c].key \in Keys
                 /\ log[c].calls[2] = "ok" => store[frame[c].key] = <<"[", "]">>
                 /\ frame[c].outcome = "return"
                 /\ frame[c].value = PyValue("list", <<>>)

C15_Witness ==
    \E c \in Callers :
        /\ CacheMiss(c)
        /\ log[c].es.kind = "ok" /\ log[c].es.ids = <<>>
        /\ log[c].calls = <<"ok", "ok">>
        /\ store[frame[c].key] = <<"[", "]">>
        /\ frame[c].value = PyValue("list", <<>>)

\* C20: cleaning a cleaned text changes nothing.
C20_CleanIdempotent == Len(cleaned) = 2 => cleaned[2] = cleaned[1]

C20_Witness ==
    /\ hypothesis = <<"#", " ", "*", "a", "*">>
    /\ cleaned = <<(<<"a", ".">>), (<<"a", ".">>)>>

GenerateDone(c) == Finished(c, {"generate"}) /\ GROQ_API_KEY /\ GROQ_API_URL
Answered(c, i, status) ==
    i <= Len(log[c].replies) /\ log[c].replies[i].fault = "none"
    /\ log[c].replies[i].status = status

C17_ThreeFailuresThenSuccess ==
    \A c \in Callers :
        (/\ GenerateDone(c)
         /\ frame[c].mr = max_retries_default
         /\ \A i \in 1..3 : Answered(c, i, 500))
        => frame[c].outcome = "return"

\* C17 (amended): with max_retries left at 3, 500 twice and then 200 with a
\* content gives, on the third attempt, the cleaned content of that response;
\* 500 three times ends the call with the error of status 500.
C17_TwoFailuresThenSuccess ==
    \A c \in Callers :
        (GenerateDone(c) /\ frame[c].mr = max_retries_default
         /\ Answered(c, 1, 500) /\ Answered(c, 2, 500))
        => /\ log[c].posts = 3 /\ Len(log[c].replies) = 3
           /\ log[c].waits = <<llm_delay, 2 * llm_delay>>
           /\ (Answered(c, 3, 200) /\ log[c].replies[3].readable
               /\ log[c].replies[3].content # <<>>)
              => /\ frame[c].outcome = "return"
                 /\ frame[c].text = clean_hypothesis_text(log[c].replies[3].content)
           /\ Answered(c, 3, 500)
              => /\ frame[c].outcome = "raise"
                 /\ frame[c].e = "Groq AI API error: 500"

C17_Witness ==
    \E c \in Callers :
        /\ GenerateDone(c) /\ frame[c].mr = max_retries_default
        /\ Answered(c, 1, 500) /\ Answered(c, 2, 500) /\ Answered(c, 3, 200)
        /\ log[c].replies[3].content = <<"*", "a", "*">>
        /\ frame[c].outcome = "return"
        /\ frame[c].text = <<"a", ".">>

\* C18 (as stated): when every attempt failed the call raises an error that
\* names the HTTP status or the network cause of the last attempt.
AllAttemptsFailed(c) ==
    /\ GenerateDone(c)
    /\ \A i \in DOMAIN log[c].replies : AttemptFailed(log[c].replies[i])
LastReply(c) == log[c].replies[Len(log[c].replies)]
NamesStatusOrCause(e, reply) ==
    \/ reply.fault # "none" /\ e = reply.fault
    \/ reply.fault = "none" /\ reply.status # 200
       /\ e = "Groq AI API error: " \o ToString(reply.status)

C19_NoRequestWithoutConfig ==
    \A c \in Callers :
        (frame[c].op = "generate" /\ ~(GROQ_API_KEY /\ GROQ_API_URL))
        => /\ pc[c] = "done"
           /\ frame[c].outcome = "raise"
           /\ frame[c].e = "ValueError"
           /\ log[c].posts = 0
           /\ log[c].replies = <<>>
           /\ log[c].waits = <<>>

C19_Witness ==
    \E c \in Callers :
        /\ Finished(c, {"generate"})
        /\ GROQ_API_KEY /\ ~GROQ_API_URL
        /\ frame[c].e = "ValueError"
        /\ log[c].posts = 0

\* C21: parse_pubmed_xml returns, whatever the document.  For a document that
\* is XML it returns one record per PubmedArticle element, in document order:
\* the minimal record "Error parsing article" for an element whose extraction
\* raises, the extracted record for every other element.  (For a text that is
\* not XML it returns one minimal record per requested id.)
PmidsOf(articles) == [i \in DOMAIN articles |-> articles[i].pmid]
C21_PartialFailuresIsolated ==
    parsed # NotParsed
    => /\ parsed.outcome = "return"
       /\ xml_content.wellformed
          => /\ Len(parsed.articles) = Len(xml_content.elems)
             /\ \A i \in DOMAIN xml_content.elems :
                    LET elem == xml_content.elems[i]
                        article == parsed.articles[i]
                    IN  IF MonthRaises(elem)
                        THEN article = MinimalRecord(Pmid(elem), "Error parsing article")
                        ELSE /\ article.pmid = Pmid(elem)
                             /\ article.title = "ArticleTitle"
                             /\ article.publication_date = PubDate(elem)
       /\ ~xml_content.wellformed
          => /\ PmidsOf(parsed.articles) = xml_ids
             /\ \A i \in DOMAIN parsed.articles :
                    parsed.articles[i].title = "XML parsing error"
       /\ (\A i \in DOMAIN xml_content.elems : xml_content.elems[i].pmid # Absent)
          => PmidsOf(parsed.articles)
             = ParsePubmedXml([wellformed |-> xml_content.wellformed,
                               pmids |-> PmidsOf(xml_content.elems)], xml_ids)

C21_Witness ==
    /\ xml_content.wellformed
    /\ xml_content.elems = <<[pmid |-> "1", year |-> "1999", month |-> Empty, day |-> "7"],
                             [pmid |-> Absent, year |-> "1999", month |-> "3", day |-> Absent]>>
    /\ parsed.articles = <<MinimalRecord("1", "Error parsing article"),
                           [pmid |-> "Unknown", title |-> "ArticleTitle",
                            publication_date |-> "1999-03-01"]>>

\* C22: a payload of ingest_historical without "text" or without "source_id"
\* is answered 400 and no graph operation is started; in the hypothesis
\* endpoint a node that is not found is answered 404; 500 answers an
\* operation that raised, and nothing else.
Responded(c) == pc[c] = "done" /\ frame[c].ep # "none"
LacksField(payload) == "text" \notin payload \/ "source_id" \notin payload
NodeMissing(c) == Len(frame[c].found) = 2 /\ (~frame[c].found[1] \/ ~frame[c].found[2])
OperationRaised(c) ==
    /\ log[c].ops # <<>>
    /\ frame[c].outcome = "raise"
    /\ frame[c].e # "HTTPException"
C22_ErrorStatuses ==
    \A c \in Callers :
        Responded(c)
        => /\ (frame[c].ep = "ingest_historical" /\ LacksField(frame[c].payload))
              => /\ frame[c].status = 400
                 /\ log[c].ops = <<>>
           /\ (frame[c].ep = "hypothesis" /\ NodeMissing(c))
              => frame[c].status = 404
           /\ frame[c].status = 500 => OperationRaised(c)

\* C23: every operation that was started comes to its end, by returning or by
\* raising, even when a service never answers: no await waits for ever.
C23_EveryStepTimesOut ==
    \A c \in Callers : (pc[c] \notin {"idle", "done"}) ~> (pc[c] = "done")

\* C24: in both acquire functions the wait after the k-th failed attempt is
\* retry_delay * 2^(k-1), it is made only when k < max_retries, and nothing is
\* waited after the last attempt.
BackoffIsExponential(c) ==
    /\ \A k \in DOMAIN log[c].delays :
           /\ log[c].delays[k] = retry_delay * Pow2(k - 1)
           /\ k < frame[c].mr
           /\ k <= Len(log[c].attempts) /\ log[c].attempts[k] = "fail"
    /\ Finished(c, AcquireOps) /\ log[c].attempts # <<>>
       => Len(log[c].delays) = Len(log[c].attempts) - 1
C24_ExponentialBackoff ==
    \A c \in Callers : frame[c].op \in AcquireOps => BackoffIsExponential(c)

\* C25: an acquire that found a handle in the slot and ends without a handle
\* has nevertheless called the connect primitive max_retries times: the failed
\* probe of the handle it found is not counted as an attempt.
C25_StaleProbeIsFree ==
    \A c \in Callers :
        (/\ Finished(c, AcquireOps)
         /\ ConfigOK
         /\ log[c].slot0 # None
         /\ ~Acquired(c))
        => log[c].connects = frame[c].mr

\* C26: once a failed attempt has been handled, the slot no longer refers to
\* the handle the attempt worked on: after each failed cycle of
\* execute_query_with_retry, and after each failed round of cache_get and
\* cache_set, the last one included.
LastFailed(s) == s # <<>> /\ s[Len(s)] # "ok"
C26_FailedAttemptDropsHandle ==
    \A c \in Callers :
        /\ (pc[c] = "x_backoff" /\ frame[c].db_driver # None)
           => driver # frame[c].db_driver
        /\ (/\ \/ pc[c] \in {"cg_sleep", "cs_sleep"}
                \/ (Finished(c, CacheOps) /\ LastFailed(log[c].rounds))
             /\ frame[c].r # None)
           => redis # frame[c].r

\* C27: when close() of a discarded handle raises, the slot is emptied all the
\* same, the error does not leave the acquire (or close_driver), and the
\* attempts that remain are made: an acquire that ends without a handle has
\* made max_retries attempts.
AfterClose == {"gd_backoff", "gr_backoff"}
C27_CloseErrorsSwallowed ==
    \A c \in Callers :
        frame[c].close_error =>
            /\ pc[c] \in AfterClose => Slot(KindOf(frame[c].op)) = None
            /\ Finished(c, {"close_driver"}) => driver = None /\ frame[c].outcome = "return"
            /\ (Finished(c, AcquireOps) /\ ~Acquired(c))
               => /\ Len(log[c].attempts) = frame[c].mr
                  /\ Slot(KindOf(frame[c].op)) = None

\* the close after a failed attempt raised, and the next attempt took place
\* and gave a handle
C27_Witness ==
    \E c \in Callers :
        /\ Finished(c, AcquireOps)
        /\ frame[c].close_error
        /\ Acquired(c)
        /\ Len(log[c].attempts) >= 2

\* C28: with callers interleaved, a get_redis_with_retry that returns hands
\* out the handle its own ping was just answered on: not None, not another
\* handle, and a handle nobody has closed.
ReturnsFromPing(c) ==
    /\ frame[c].op = "get_redis"
    /\ pc[c] = "gr_ping"
    /\ pc'[c] = "done"
    /\ frame'[c].outcome = "return"
C28_ReturnsPingedHandle ==
    [][\A c \in Callers :
          ReturnsFromPing(c) => /\ frame'[c].got # None
                                /\ frame'[c].got = frame[c].h
                                /\ frame'[c].got \in live'["cache"]]_vars

\* C29: a search that finds the cache working and holding the list an earlier
\* search stored under its key (not expired, not overwritten) sends no request
\* to the search API, whatever that list is, the empty one included.
CallingApi == {"s_pace1", "s_esearch", "s_pace2", "s_efetch"}
CacheAnswered(c) == log[c].calls # <<>> /\ log[c].calls[1] = "ok"
C29_SecondSearchFromCache ==
    \A c \in Callers :
        (/\ frame[c].op = "search"
         /\ CacheAnswered(c)
         /\ pc[c] \in CallingApi)
        => put[frame[c].key].py # "list"

\* C30: whatever fails during the cycles of execute_query_with_retry, the
\* CREATE query of one call of a creation function is committed by the graph
\* store at most once.
C30_CreateAtMostOnce ==
    \A c \in Callers : frame[c].op = "create" => log[c].created <= 1

\* C31: the hypothesis endpoint works in a fixed order.  A request goes to the
\* completion API only when both nodes were found; create_hypothesis_connection
\* is started only from a generate_hypothesis that returned; the CREATE is
\* committed only by that last operation; with a node missing nothing beyond
\* the two look-ups was started.
HypothesisOps == <<"get_node", "get_node", "generate", "create">>
BothFound(f) == f.found = <<TRUE, TRUE>>
PostSent(c) == log'[c].posts > log[c].posts
ConnectionStarted(c) == Len(log[c].ops) = 3 /\ Len(log'[c].ops) = 4
C31_StepsOrdered ==
    [][\A c \in Callers :
          frame'[c].ep = "hypothesis" =>
              /\ IsPrefix(log'[c].ops, HypothesisOps)
              /\ PostSent(c) => frame[c].op = "generate" /\ BothFound(frame[c])
              /\ ConnectionStarted(c)
                 => /\ frame[c].op = "generate" /\ frame[c].outcome = "return"
                    /\ log[c].posts >= 1
                    /\ BothFound(frame[c])
              /\ log'[c].created > 0 => log'[c].ops = HypothesisOps
              /\ (\E i \in DOMAIN frame'[c].found : ~frame'[c].found[i])
                 => Len(log'[c].ops) <= 2]_vars

\* the endpoint answered 200 after the four operations, the CREATE committed once
C31_Witness ==
    \E c \in Callers :
        /\ frame[c].ep = "hypothesis"
        /\ pc[c] = "done"
        /\ frame[c].status = 200
        /\ log[c].ops = HypothesisOps
        /\ log[c].created = 1

====
